---- MODULE Spec2Model ----
(***************************************************************************)
(* Model of the NABCA table extraction pipeline:                           *)
(*   parse_textract_tables  (block graph -> dense grids)                   *)
(*   extract_nabca_table_data (merge grids, detect header, map columns,    *)
(*                             assemble and filter records)                *)
(*   clean_record           (type coercion of record values)               *)
(* A string is a sequence of one-character strings, so that strip, lower   *)
(* and the difflib similarity ratio are computed, not assumed.             *)
(***************************************************************************)
EXTENDS Integers, Sequences, FiniteSets, TLC

VARIABLES
    blocks,          \* parse_textract_tables: the input block list
    tpos,            \* parse_textract_tables: index of the next TABLE block
    ptables,         \* parse_textract_tables: the list `tables` built so far
    ppc,             \* parse_textract_tables: "run" | "returned" | "raised"
    tables,          \* extract_nabca_table_data: textract_result["tables"]
    fields,          \* extract_nabca_table_data: semantic_fields
    pc,              \* extract_nabca_table_data / main: control position
    table_data,      \* merged grid (all_table_data)
    header_row_idx,  \* detected header row
    column_mapping,  \* column index (0-based) -> field name
    records,         \* records returned by extract_nabca_table_data
    clean_records,   \* [clean_record(r) for r in records]
    inv,             \* run_extraction / BaseExtractor: arguments and environment
    rpc,             \* run_extraction / BaseExtractor: control position
    job,             \* the pipeline_jobs row: status, and the statuses written
    printed,         \* the JSON results printed to stdout (their `success`)
    exit_code,       \* the process exit code, NoExit while running
    artifacts,       \* BaseExtractor.run: the fetched artifacts
    apos,            \* BaseExtractor.run: artifacts handled so far
    all_records,     \* BaseExtractor.run: all_records, as runs of records
    chunks,          \* load_data: the insert calls made, with their outcome
    total_loaded,    \* load_data: total_loaded
    result           \* the statistics returned by BaseExtractor.run

pvars == <<blocks, tpos, ptables, ppc>>
evars == <<tables, fields, pc, table_data, header_row_idx, column_mapping,
           records, clean_records>>
rvars == <<inv, rpc, job, printed, exit_code, artifacts, apos, all_records,
           chunks, total_loaded, result>>
vars == <<blocks, tpos, ptables, ppc, tables, fields, pc, table_data,
          header_row_idx, column_mapping, records, clean_records,
          inv, rpc, job, printed, exit_code, artifacts, apos, all_records,
          chunks, total_loaded, result>>

-----------------------------------------------------------------------------
(* Strings *)

WhiteSpace == {" ", "\t", "\n"}

RECURSIVE LStrip(_)
LStrip(s) ==
    IF s = <<>> THEN <<>>
    ELSE IF Head(s) \in WhiteSpace THEN LStrip(Tail(s)) ELSE s

RECURSIVE RStrip(_)
RStrip(s) ==
    IF s = <<>> THEN <<>>
    ELSE IF s[Len(s)] \in WhiteSpace THEN RStrip(SubSeq(s, 1, Len(s) - 1)) ELSE s

\* str.strip()
Strip(s) == RStrip(LStrip(s))

UpperCase == <<"A","B","C","D","E","F","G","H","I","J","K","L","M",
               "N","O","P","Q","R","S","T","U","V","W","X","Y","Z">>
LowerCase == <<"a","b","c","d","e","f","g","h","i","j","k","l","m",
               "n","o","p","q","r","s","t","u","v","w","x","y","z">>

LowerChar(c) ==
    IF \E i \in DOMAIN UpperCase : UpperCase[i] = c
    THEN LowerCase[CHOOSE i \in DOMAIN UpperCase : UpperCase[i] = c]
    ELSE c

\* str.lower()
\* case is not folded
Lower_Identity(s) == s

Lower(s) == [i \in DOMAIN s |-> LowerChar(s[i])]

\* Python truthiness of `cell and cell.strip()`
NonBlank(s) == s # <<>> /\ Strip(s) # <<>>

-----------------------------------------------------------------------------
(* difflib.SequenceMatcher(None, a, b).ratio(), for inputs shorter than the  *)
(* 200 elements at which the autojunk heuristic starts.                      *)

\* length of the longest common run ending at a[i], b[j] (j2len[j] in difflib)
RECURSIVE RunLen(_, _, _, _)
RunLen(a, i, b, j) ==
    IF i < 1 \/ j < 1 THEN 0
    ELSE IF a[i] # b[j] THEN 0
    ELSE 1 + RunLen(a, i - 1, b, j - 1)

\* find_longest_match over the whole of a and b. difflib walks i ascending and,
\* for each i, j ascending, and replaces the best block only by a strictly
\* longer one: the result is the first (i, j), in that order, at which the run
\* reaches the greatest length.
find_longest_match(a, b) ==
    LET ends == (1 .. Len(a)) \X (1 .. Len(b))
        K == CHOOSE k \in 0 .. Len(a) :
                 /\ \A p \in ends : RunLen(a, p[1], b, p[2]) <= k
                 /\ (k = 0 \/ \E p \in ends : RunLen(a, p[1], b, p[2]) = k)
        hits == {p \in ends : RunLen(a, p[1], b, p[2]) = K}
        first == CHOOSE p \in hits :
                     \A q \in hits : p[1] < q[1] \/ (p[1] = q[1] /\ p[2] <= q[2])
    IN  IF K = 0 THEN [i |-> 1, j |-> 1, size |-> 0]
        ELSE [i |-> first[1] - K + 1, j |-> first[2] - K + 1, size |-> K]

\* sum of the sizes of get_matching_blocks(): the longest block, then the
\* pieces to its left and to its right
RECURSIVE Matches(_, _)
Matches(a, b) ==
    IF a = <<>> \/ b = <<>> THEN 0
    ELSE LET m == find_longest_match(a, b)
         IN  IF m.size = 0 THEN 0
             ELSE m.size
                  + Matches(SubSeq(a, 1, m.i - 1), SubSeq(b, 1, m.j - 1))
                  + Matches(SubSeq(a, m.i + m.size, Len(a)),
                            SubSeq(b, m.j + m.size, Len(b)))

\* ratio() = 2.0 * matches / (len(a) + len(b)), 1.0 when both are empty; kept
\* as the exact fraction num/den
similarity(a, b) ==
    IF Len(a) + Len(b) = 0 THEN [num |-> 1, den |-> 1]
    ELSE [num |-> 2 * Matches(a, b), den |-> Len(a) + Len(b)]

ScoreGt(x, y) == x.num * y.den > y.num * x.den
ScoreMax(x, y) == IF ScoreGt(y, x) THEN y ELSE x
ScoreZero == [num |-> 0, den |-> 1]
\* the acceptance threshold 0.5 of the fuzzy match
ScoreHalf == [num |-> 1, den |-> 2]

-----------------------------------------------------------------------------
(* extract_nabca_table_data: merging the tables *)

Min(a, b) == IF a < b THEN a ELSE b

\* number of leading rows scanned for the header of a continuation table
MergeScan == 5
\* number of leading rows of the merged grid scanned for the header row
HeaderScan == 5

\* sum(1 for cell in row if cell and cell.strip())
MergeCount(row) == Cardinality({c \in DOMAIN row : NonBlank(row[c])})

\* sum(1 for cell in row if cell and cell.strip() and cell.strip() != "'")
HeaderCount(row) ==
    Cardinality({c \in DOMAIN row : NonBlank(row[c]) /\ Strip(row[c]) # <<"'">>})

\* the scan with `>=` for `>`: the last of the fullest rows
RECURSIVE ScanFrom_LastMax(_, _, _, _)
ScanFrom_LastMax(counts, k, best_idx, best_cnt) ==
    IF k > Len(counts) THEN best_idx
    ELSE IF counts[k] >= best_cnt
         THEN ScanFrom_LastMax(counts, k + 1, k - 1, counts[k])
         ELSE ScanFrom_LastMax(counts, k + 1, best_idx, best_cnt)

\* the scan `if count > max: max = count; idx = row_idx` over counts[k..],
\* with 0-based row indices
RECURSIVE ScanFrom(_, _, _, _)
ScanFrom(counts, k, best_idx, best_cnt) ==
    IF k > Len(counts) THEN best_idx
    ELSE IF counts[k] > best_cnt
         THEN ScanFrom(counts, k + 1, k - 1, counts[k])
         ELSE ScanFrom(counts, k + 1, best_idx, best_cnt)

\* header_idx of a continuation table
MergeHeaderIdx(raw) ==
    ScanFrom([k \in 1 .. Min(MergeScan, Len(raw)) |-> MergeCount(raw[k])], 1, 0, 0)

\* table_data_raw[data_start_idx:]
RowsFrom(raw, start) == SubSeq(raw, start + 1, Len(raw))

\* the header row itself is kept: data_start_idx = header_idx
MergePart_KeepHeader(raw, idx) ==
    IF idx = 0 THEN raw ELSE RowsFrom(raw, MergeHeaderIdx(raw))

\* the part of table number idx (0-based) that is appended to all_table_data
MergePart(raw, idx) ==
    IF idx = 0 THEN raw ELSE RowsFrom(raw, MergeHeaderIdx(raw) + 1)

\* the loop `for idx, table in enumerate(tables)`, from table k (1-based) on
RECURSIVE MergeFrom(_, _, _)
MergeFrom(tbls, k, acc) ==
    IF k > Len(tbls) THEN acc
    ELSE MergeFrom(tbls, k + 1, acc \o MergePart(tbls[k], k - 1))

MergeAll(tbls) == MergeFrom(tbls, 1, <<>>)

-----------------------------------------------------------------------------
(* extract_nabca_table_data: header row and column mapping *)

\* lone apostrophes counted as labels
DetectHeaderIdx_Apostrophes(grid) ==
    ScanFrom([k \in 1 .. Min(HeaderScan, Len(grid)) |-> MergeCount(grid[k])], 1, 0, 0)

\* header_row_idx of the merged grid
DetectHeaderIdx(grid) ==
    ScanFrom([k \in 1 .. Min(HeaderScan, Len(grid)) |-> HeaderCount(grid[k])], 1, 0, 0)

\* all(not h or not h.strip() for h in headers)
HeadersEmpty(headers) == \A c \in DOMAIN headers : ~NonBlank(headers[c])

\* len(headers) != len(set(h.strip().lower() for h in headers if h and h.strip()))
HasDuplicates(headers) ==
    Len(headers) #
        Cardinality({Lower(Strip(headers[c])) : c \in {d \in DOMAIN headers : NonBlank(headers[d])}})

EmptyMapping == [c \in {} |-> <<>>]

\* the positional branch: column idx -> semantic_fields[idx]["name"]
PositionalMapping(headers, flds) ==
    IF Len(flds) = Len(headers)
    THEN [c \in 0 .. Len(flds) - 1 |-> flds[c + 1].name]
    ELSE EmptyMapping

\* max(score1, score2) of one field against a header
FieldScore(header, f) ==
    ScoreMax(similarity(Lower(header), Lower(f.name)),
             similarity(Lower(header), Lower(f.displayName)))

NoMatch == [some |-> FALSE, name |-> <<>>]

\* the loop `for field in semantic_fields` from field k on:
\* `if score > best_score: best_score = score; best_match = field["name"]`
RECURSIVE BestFrom(_, _, _, _)
BestFrom(header, flds, k, best) ==
    IF k > Len(flds) THEN best
    ELSE LET score == FieldScore(header, flds[k])
         IN  IF ScoreGt(score, best.score)
             THEN BestFrom(header, flds, k + 1,
                           [match |-> [some |-> TRUE, name |-> flds[k].name], score |-> score])
             ELSE BestFrom(header, flds, k + 1, best)

BestMatch(header, flds) ==
    BestFrom(header, flds, 1, [match |-> NoMatch, score |-> ScoreZero])

\* `>= 0.5` for `> 0.5`
Accepted_AtLeastHalf(best) ==
    best.match.some /\ best.match.name # <<>> /\ ~ScoreGt(ScoreHalf, best.score)

\* `if best_match and best_score > 0.5`
Accepted(best) ==
    best.match.some /\ best.match.name # <<>> /\ ScoreGt(best.score, ScoreHalf)

\* the fuzzy branch: blank headers are skipped, the others mapped when accepted
FuzzyMapping(headers, flds) ==
    LET cols == {c \in 0 .. Len(headers) - 1 :
                    /\ NonBlank(headers[c + 1])
                    /\ Accepted(BestMatch(headers[c + 1], flds))}
    IN  [c \in cols |-> BestMatch(headers[c + 1], flds).match.name]

\* only the all-empty test
UsePositional_EmptyOnly(headers) == HeadersEmpty(headers)

\* `if headers_empty or has_duplicates`
UsePositional(headers) == HeadersEmpty(headers) \/ HasDuplicates(headers)

BuildColumnMapping(headers, flds) ==
    IF UsePositional(headers)
    THEN PositionalMapping(headers, flds)
    ELSE FuzzyMapping(headers, flds)

-----------------------------------------------------------------------------
(* extract_nabca_table_data: records *)

\* record values carry their Python type
Null == [t |-> "null"]
Str(s) == [t |-> "str", s |-> s]
IntVal(n) == [t |-> "int", n |-> n]
FloatVal(n, scale) == [t |-> "float", n |-> n, scale |-> scale]

BoolVal(b) == [t |-> "bool", b |-> b]

EmptyRecord == [k \in {} |-> Null]

\* a key already set keeps its value
DictSet_KeepFirst(rec, key, value) ==
    [k \in DOMAIN rec \cup {key} |-> IF k \in DOMAIN rec THEN rec[k] ELSE value]

\* record[key] = value
DictSet(rec, key, value) ==
    [k \in DOMAIN rec \cup {key} |-> IF k = key THEN value ELSE rec[k]]

\* the loop `for col_idx, value in enumerate(row)` from column c (0-based) on
RECURSIVE RecordFrom(_, _, _, _)
RecordFrom(row, mapping, c, rec) ==
    IF c >= Len(row) THEN rec
    ELSE IF c \in DOMAIN mapping
         THEN RecordFrom(row, mapping, c + 1,
                         DictSet(rec, mapping[c], Str(Strip(row[c + 1]))))
         ELSE RecordFrom(row, mapping, c + 1, rec)

BuildRecord(row, mapping) == RecordFrom(row, mapping, 0, EmptyRecord)

\* only the keys whose value is not empty are counted
Covered_NonEmpty(rec, flds) ==
    2 * Cardinality({k \in DOMAIN rec : rec[k] # Str(<<>>)}) >= Len(flds)

\* `>` for `>=`
Covered_Strict(rec, flds) == 2 * Cardinality(DOMAIN rec) > Len(flds)

\* len(record) >= len(semantic_fields) * 0.5
Covered(rec, flds) == 2 * Cardinality(DOMAIN rec) >= Len(flds)

\* the loop `for row_idx, row in enumerate(data_rows)` from row k on
RECURSIVE RecordsFrom(_, _, _, _, _)
RecordsFrom(rows, mapping, flds, k, acc) ==
    IF k > Len(rows) THEN acc
    ELSE LET rec == BuildRecord(rows[k], mapping)
         IN  RecordsFrom(rows, mapping, flds, k + 1,
                         IF Covered(rec, flds) THEN Append(acc, rec) ELSE acc)

\* a field with no mapped column is set to None instead of being absent
ExtractAll_NullFill(rows, mapping, flds) ==
    LET recs == RecordsFrom(rows, mapping, flds, 1, <<>>)
        names == {flds[i].name : i \in DOMAIN flds}
    IN  [j \in DOMAIN recs |->
            [f \in DOMAIN recs[j] \cup names |->
                IF f \in DOMAIN recs[j] THEN recs[j][f] ELSE Null]]

ExtractAll(rows, mapping, flds) == RecordsFrom(rows, mapping, flds, 1, <<>>)

-----------------------------------------------------------------------------
(* clean_record *)

Digits == <<"0","1","2","3","4","5","6","7","8","9">>
IsDigit(c) == \E d \in DOMAIN Digits : Digits[d] = c
DigitVal(c) == (CHOOSE d \in DOMAIN Digits : Digits[d] = c) - 1

\* str.lstrip(ch): every leading ch is removed
RECURSIVE LStripChar(_, _)
LStripChar(s, ch) ==
    IF s = <<>> THEN <<>>
    ELSE IF Head(s) = ch THEN LStripChar(Tail(s), ch) ELSE s

\* str.replace(ch, '')
RECURSIVE RemoveAll(_, _)
RemoveAll(s, ch) ==
    IF s = <<>> THEN <<>>
    ELSE IF Head(s) = ch THEN RemoveAll(Tail(s), ch)
         ELSE <<Head(s)>> \o RemoveAll(Tail(s), ch)

\* str.replace(ch, '', 1)
RECURSIVE RemoveFirst(_, _)
RemoveFirst(s, ch) ==
    IF s = <<>> THEN <<>>
    ELSE IF Head(s) = ch THEN Tail(s)
         ELSE <<Head(s)>> \o RemoveFirst(Tail(s), ch)

\* str.isdigit() on ASCII text
AllDigits(s) == s # <<>> /\ \A i \in DOMAIN s : IsDigit(s[i])

\* only one leading apostrophe is removed
Normalize_OneApostrophe(s) ==
    Strip(RemoveAll(RemoveAll(RemoveAll(
        IF s # <<>> /\ Head(s) = "'" THEN Tail(s) ELSE s, "%"), ","), " "))

\* percent signs are kept
Normalize_KeepPercent(s) ==
    Strip(RemoveAll(RemoveAll(LStripChar(s, "'"), ","), " "))

\* v.lstrip("'").replace('%', '').replace(',', '').replace(' ', '').strip()
Normalize(s) ==
    Strip(RemoveAll(RemoveAll(RemoveAll(LStripChar(s, "'"), "%"), ","), " "))

\* a plus sign is not accepted
LooksNumeric_NoPlus(s) ==
    s # <<>> /\ AllDigits(RemoveFirst(RemoveFirst(s, "."), "-"))

\* v_clean and v_clean.replace('.', '', 1).replace('-', '', 1).replace('+', '', 1).isdigit()
LooksNumeric(s) ==
    s # <<>> /\ AllDigits(RemoveFirst(RemoveFirst(RemoveFirst(s, "."), "-"), "+"))

HasSign(s) == s # <<>> /\ Head(s) \in {"+", "-"}
Unsigned(s) == IF HasSign(s) THEN Tail(s) ELSE s

\* int(s) does not raise ValueError: an optional sign, then digits
IntParses(s) == AllDigits(Unsigned(s))

\* float(s) does not raise ValueError, for text of signs, digits and dots:
\* an optional sign, then digits with at most one dot and at least one digit
FloatParses(s) ==
    LET u == Unsigned(s)
    IN  /\ \E i \in DOMAIN u : IsDigit(u[i])
        /\ \A i \in DOMAIN u : IsDigit(u[i]) \/ u[i] = "."
        /\ Cardinality({i \in DOMAIN u : u[i] = "."}) <= 1

RECURSIVE DigitsValue(_)
DigitsValue(s) ==
    IF s = <<>> THEN 0
    ELSE 10 * DigitsValue(SubSeq(s, 1, Len(s) - 1)) + DigitVal(s[Len(s)])

Signed(s, n) == IF s # <<>> /\ Head(s) = "-" THEN 0 - n ELSE n

\* int(s)
IntOf(s) == IntVal(Signed(s, DigitsValue(Unsigned(s))))

\* a decimal n / 10^scale without trailing fractional zeros
RECURSIVE Reduce(_, _)
Reduce(n, scale) ==
    IF scale > 0 /\ n % 10 = 0 THEN Reduce(n \div 10, scale - 1) ELSE FloatVal(n, scale)

\* float(s): the decimal value of the text
FloatOf(s) ==
    LET u == Unsigned(s)
        dot == CHOOSE i \in DOMAIN u : u[i] = "."
        r == Reduce(DigitsValue(RemoveFirst(u, ".")), Len(u) - dot)
    IN  FloatVal(Signed(s, r.n), r.scale)

\* the string branch: the number the normalized text parses to, else v
CoerceText(v) ==
    LET v_clean == Normalize(v.s)
    IN  IF LooksNumeric(v_clean)
        THEN IF \E i \in DOMAIN v_clean : v_clean[i] = "."
             THEN IF FloatParses(v_clean) THEN FloatOf(v_clean) ELSE v
             ELSE IF IntParses(v_clean) THEN IntOf(v_clean) ELSE v
        ELSE v

\* a value that is neither a string nor None is not passed through
CleanValue_DropNumbers(v) ==
    IF v.t = "null" \/ v = Str(<<>>) THEN Null
    ELSE IF v.t = "str" THEN CoerceText(v)
    ELSE Null

\* the empty string is kept instead of becoming None
CleanValue_KeepEmpty(v) ==
    IF v.t = "null" THEN Null
    ELSE IF v.t = "str" /\ v.s # <<>> THEN CoerceText(v)
    ELSE v

\* the value clean_record stores for v
CleanValue(v) ==
    IF v.t = "null" \/ v = Str(<<>>) THEN Null
    ELSE IF v.t = "str" THEN CoerceText(v)
    ELSE v

\* k.startswith('_')
Private(k) == k # <<>> /\ Head(k) = "_"

\* private keys are kept
clean_record_KeepPrivate(rec) == [k \in DOMAIN rec |-> CleanValue(rec[k])]

clean_record(rec) ==
    [k \in {x \in DOMAIN rec : ~Private(x)} |-> CleanValue(rec[k])]

-----------------------------------------------------------------------------
(* extract_nabca_table_data followed by main's cleaning step, as a state     *)
(* machine. pc: "start" -> "merged" -> "header" -> "mapped" -> "returned"   *)
(* -> "cleaned"; the two early returns go straight to "returned".           *)

NoHeader == 0 - 1

\* `if not tables: return []`
NoTables ==
    /\ pc = "start"
    /\ tables = <<>>
    /\ records' = <<>>
    /\ pc' = "returned"
    /\ UNCHANGED <<tables, fields, table_data, header_row_idx, column_mapping,
                   clean_records>>
    /\ UNCHANGED pvars
    /\ UNCHANGED rvars

\* the merge loop over all tables
MergeTables ==
    /\ pc = "start"
    /\ tables # <<>>
    /\ table_data' = MergeAll(tables)
    /\ pc' = "merged"
    /\ UNCHANGED <<tables, fields, header_row_idx, column_mapping, records,
                   clean_records>>
    /\ UNCHANGED pvars
    /\ UNCHANGED rvars

\* `if len(table_data) < 2: return []`
TooFewRows ==
    /\ pc = "merged"
    /\ Len(table_data) < 2
    /\ records' = <<>>
    /\ pc' = "returned"
    /\ UNCHANGED <<tables, fields, table_data, header_row_idx, column_mapping,
                   clean_records>>
    /\ UNCHANGED pvars
    /\ UNCHANGED rvars

\* the header scan over table_data[:5]
DetectHeader ==
    /\ pc = "merged"
    /\ Len(table_data) >= 2
    /\ header_row_idx' = DetectHeaderIdx(table_data)
    /\ pc' = "header"
    /\ UNCHANGED <<tables, fields, table_data, column_mapping, records,
                   clean_records>>
    /\ UNCHANGED pvars
    /\ UNCHANGED rvars

\* headers = table_data[header_row_idx]
Headers == table_data[header_row_idx + 1]
\* data_rows = table_data[header_row_idx + 1:]
DataRows == RowsFrom(table_data, header_row_idx + 1)

\* the positional or the fuzzy column mapping
BuildMapping ==
    /\ pc = "header"
    /\ column_mapping' = BuildColumnMapping(Headers, fields)
    /\ pc' = "mapped"
    /\ UNCHANGED <<tables, fields, table_data, header_row_idx, records,
                   clean_records>>
    /\ UNCHANGED pvars
    /\ UNCHANGED rvars

\* the record loop over data_rows, and `return records`
ExtractRecords ==
    /\ pc = "mapped"
    /\ records' = ExtractAll(DataRows, column_mapping, fields)
    /\ pc' = "returned"
    /\ UNCHANGED <<tables, fields, table_data, header_row_idx, column_mapping,
                   clean_records>>
    /\ UNCHANGED pvars
    /\ UNCHANGED rvars

\* main: clean_records = [clean_record(r) for r in records]
CleanRecords ==
    /\ pc = "returned"
    /\ clean_records' = [k \in DOMAIN records |-> clean_record(records[k])]
    /\ pc' = "cleaned"
    /\ UNCHANGED <<tables, fields, table_data, header_row_idx, column_mapping,
                   records>>
    /\ UNCHANGED pvars
    /\ UNCHANGED rvars

NextExtract ==
    \/ NoTables
    \/ MergeTables
    \/ TooFewRows
    \/ DetectHeader
    \/ BuildMapping
    \/ ExtractRecords
    \/ CleanRecords

\* the extraction's own variables before the call
ExtractStart(tbls, flds) ==
    /\ tables = tbls
    /\ fields = flds
    /\ pc = "start"
    /\ table_data = <<>>
    /\ header_row_idx = NoHeader
    /\ column_mapping = EmptyMapping
    /\ records = <<>>
    /\ clean_records = <<>>

\* parse_textract_tables is not running
ParseIdle ==
    /\ blocks = <<>>
    /\ tpos = 0
    /\ ptables = <<>>
    /\ ppc = "idle"

\* no exit code yet
NoExit == 0 - 1

\* the pipeline_jobs row before the invocation
NewJob == [status |-> "pending", log |-> <<>>]

\* the variables of a run before anything has been done
RunFresh ==
    /\ job = NewJob
    /\ printed = <<>>
    /\ exit_code = NoExit
    /\ artifacts = <<>>
    /\ apos = 0
    /\ all_records = <<>>
    /\ chunks = <<>>
    /\ total_loaded = 0
    /\ result = <<>>

\* no extraction run is in progress
RunIdle ==
    /\ inv = <<>>
    /\ rpc = "idle"
    /\ RunFresh

-----------------------------------------------------------------------------
(* Inputs of extract_nabca_table_data *)

\* all sequences over S of length at most n
SeqsUpTo(S, n) == UNION {[1 .. k -> S] : k \in 0 .. n}

\* number of rows of an input of one or two tables
MaxRows == 6
\* number of tables of an input of up to MaxShort rows
MaxTables == 3
MaxShort == 4

E == <<>>
Sp == <<" ">>
Ap == <<"'">>
X == <<"x">>
Y == <<"y">>

\* rows with 0, 1 and 2 non-blank cells
MergeRows == {<<E, Sp>>, <<X, E>>, <<X, Y>>}
\* rows whose lone apostrophes count for the merge but not for the header
HeaderRows == {<<E, Sp>>, <<Ap, E>>, <<X, Ap>>, <<X, Y>>}

FieldsXY == << [name |-> X, displayName |-> X], [name |-> Y, displayName |-> Y] >>

\* the row sequence rs cut into Len(cuts) + 1 consecutive tables
CutTables(rs, cuts) ==
    [i \in 1 .. Len(cuts) + 1 |->
        SubSeq(rs,
               (IF i = 1 THEN 0 ELSE cuts[i - 1]) + 1,
               IF i = Len(cuts) + 1 THEN Len(rs) ELSE cuts[i])]

NonDecreasing(cuts) == \A i \in 1 .. Len(cuts) - 1 : cuts[i] <= cuts[i + 1]

\* one or two tables holding up to MaxRows rows in all (so that a table can be
\* longer than the scan), up to MaxTables tables holding up to MaxShort rows,
\* or one table of up to MaxRows rows in which apostrophe cells occur
InitMerge ==
    /\ ParseIdle
    /\ RunIdle
    /\ \/ ExtractStart(<<>>, FieldsXY)
       \/ \E rs \in SeqsUpTo(MergeRows, MaxRows) :
          \E cuts \in SeqsUpTo(0 .. Len(rs), 1) :
             ExtractStart(CutTables(rs, cuts), FieldsXY)
       \/ \E rs \in SeqsUpTo(MergeRows, MaxShort) :
          \E cuts \in SeqsUpTo(0 .. Len(rs), MaxTables - 1) :
             /\ NonDecreasing(cuts)
             /\ ExtractStart(CutTables(rs, cuts), FieldsXY)
       \/ \E rs \in SeqsUpTo(HeaderRows, MaxRows) :
             ExtractStart(<<rs>>, FieldsXY)

SpecMerge == InitMerge /\ [][NextExtract]_vars

-----------------------------------------------------------------------------
(* Inputs for the column mapping and the records *)

\* number of columns of a header row
MaxCols == 3

Brand == <<"B","r","a","n","d">>
BRAND == <<"B","R","A","N","D"," ">>
Brands == <<"B","r","a","n","d","s">>
Type == <<"T","y","p","e">>
\* scores exactly 0.5 against "brand"
BD == <<"B","/","D">>
N12 == <<"1","2">>
Txt == <<"n","/","a">>

fBrand == [name |-> <<"b","r","a","n","d">>, displayName |-> Brand]
fType == [name |-> <<"t","y","p","e">>, displayName |-> Type]
\* a field matched through its display name only
fSku == [name |-> <<"s","k","u">>, displayName |-> Brand]
\* a field whose name carries the private prefix
fPriv == [name |-> <<"_","i","d">>, displayName |-> Type]

HeaderCells == {E, Brand, BRAND, Brands, Type, BD}
FieldLists == {<<>>, <<fBrand>>, <<fBrand, fType>>, <<fSku, fBrand>>, <<fBrand, fPriv>>,
               <<fBrand, fSku, fType>>, <<fType, fSku, fBrand>>}
\* the data rows under the header: rows narrower than, as wide as and with
\* blank cells under the header
DataRowLists ==
    { <<>>,
      << <<N12>> >>,
      << <<N12, E>> >>,
      << <<Sp, N12, Txt>> >>,
      << <<E, E, E>> >>,
      << <<N12>>, <<N12, Txt, N12>> >>,
      << <<N12, Txt, N12>>, <<E, E, E>> >>,
      << <<Txt, Sp>>, <<N12, N12>> >> }

\* nine fields named a .. i under the header A .. I
NineFields == [k \in 1 .. 9 |-> [name |-> <<LowerCase[k]>>, displayName |-> <<LowerCase[k]>>]]
NineHeader == [k \in 1 .. 9 |-> <<UpperCase[k]>>]
\* rows of 3, 4 and 5 cells, and a row of 9 cells of which 3 are non-empty
Row3 == <<N12, N12, N12>>
Row4 == <<N12, N12, N12, N12>>
Row5 == <<N12, E, N12, N12, N12>>
Row9 == <<N12, E, E, N12, E, E, N12, E, E>>
NineRowLists == { <<Row3, Row5>>, <<Row9>>, <<Row4, Row3, Row5>>, <<Row5, Row4>> }

\* the header Brand, Type, YTD Rank over fields whose display name is the name
YtdRank == <<"Y","T","D"," ","R","a","n","k">>
RankHeader == <<Brand, Type, YtdRank>>
RankFields ==
    << [name |-> <<"b","r","a","n","d">>, displayName |-> <<"b","r","a","n","d">>],
       [name |-> <<"t","y","p","e">>, displayName |-> <<"t","y","p","e">>],
       [name |-> <<"y","t","d","_","r","a","n","k">>,
        displayName |-> <<"y","t","d","_","r","a","n","k">>] >>

InitMap ==
    /\ ParseIdle
    /\ RunIdle
    /\ \/ \E flds \in FieldLists : ExtractStart(<<>>, flds)
       \/ \E hdr \in SeqsUpTo(HeaderCells, MaxCols) :
          \E rows \in DataRowLists :
          \E flds \in FieldLists :
             ExtractStart(<< <<hdr>> \o rows >>, flds)
       \/ \E rows \in NineRowLists :
             ExtractStart(<< <<NineHeader>> \o rows >>, NineFields)
       \/ \E rows \in DataRowLists :
             ExtractStart(<< <<RankHeader>> \o rows >>, RankFields)

SpecMap == InitMap /\ [][NextExtract]_vars

-----------------------------------------------------------------------------
(* parse_textract_tables *)

\* a block is a dict; `has` is the set of keys it carries, and a key it does
\* not carry holds a placeholder that is never read
Block(id, type, has, rowspan, colspan, rowidx, colidx, text, rels) ==
    [Id |-> id, BlockType |-> type, has |-> has,
     RowSpan |-> rowspan, ColumnSpan |-> colspan,
     RowIndex |-> rowidx, ColumnIndex |-> colidx,
     Text |-> text, Relationships |-> rels]

\* block.get(key, default) for the integer keys
GetRowSpan(b) == IF "RowSpan" \in b.has THEN b.RowSpan ELSE 0
GetColumnSpan(b) == IF "ColumnSpan" \in b.has THEN b.ColumnSpan ELSE 0
GetRowIndex(b) == IF "RowIndex" \in b.has THEN b.RowIndex ELSE 1
GetColumnIndex(b) == IF "ColumnIndex" \in b.has THEN b.ColumnIndex ELSE 1
GetText(b) == IF "Text" \in b.has THEN b.Text ELSE <<>>

\* [b for b in blocks if b.get('BlockType') == 'TABLE']
RECURSIVE SelectType(_, _)
SelectType(blks, type) ==
    IF blks = <<>> THEN <<>>
    ELSE IF Head(blks).BlockType = type
         THEN <<Head(blks)>> \o SelectType(Tail(blks), type)
         ELSE SelectType(Tail(blks), type)

TableBlocks(blks) == SelectType(blks, "TABLE")

\* an id that matches no block yields the first block instead of None
FindBlock_FirstOnMiss(blks, id) ==
    LET hits == {i \in DOMAIN blks : blks[i].Id = id}
    IN  IF hits = {} THEN {blks[i] : i \in DOMAIN blks \cap {1}}
        ELSE {blks[CHOOSE i \in hits : \A j \in hits : i <= j]}

\* next((b for b in blocks if b.get('Id') == id), None): the set holding the
\* first block with that id, empty for None
FindBlock(blks, id) ==
    LET hits == {i \in DOMAIN blks : blks[i].Id = id}
    IN  IF hits = {} THEN {}
        ELSE {blks[CHOOSE i \in hits : \A j \in hits : i <= j]}

\* the ids visited by `for rel in Relationships: if rel['Type'] == 'CHILD':
\* for id in rel['Ids']`, in order
RECURSIVE ChildIds(_)
ChildIds(rels) ==
    IF rels = <<>> THEN <<>>
    ELSE IF Head(rels).Type = "CHILD"
         THEN Head(rels).Ids \o ChildIds(Tail(rels))
         ELSE ChildIds(Tail(rels))

\* the blocks of the given type that the ids resolve to, in order
RECURSIVE Resolve(_, _, _)
Resolve(blks, ids, type) ==
    IF ids = <<>> THEN <<>>
    ELSE LET found == {b \in FindBlock(blks, Head(ids)) : b.BlockType = type}
         IN  (IF found = {} THEN <<>> ELSE <<CHOOSE b \in found : TRUE>>)
             \o Resolve(blks, Tail(ids), type)

\* cell_text += word_block.get('Text', '') + ' ' over the words
RECURSIVE JoinWords(_)
JoinWords(words) ==
    IF words = <<>> THEN <<>>
    ELSE GetText(Head(words)) \o <<" ">> \o JoinWords(Tail(words))

\* cell_text.strip()
CellText(blks, cell) ==
    IF "Relationships" \in cell.has
    THEN Strip(JoinWords(Resolve(blks, ChildIds(cell.Relationships), "WORD")))
    ELSE <<>>

\* rows and columns exchanged
BlankGrid_Transposed(rows, cols) == [r \in 1 .. cols |-> [c \in 1 .. rows |-> <<>>]]

\* [['' for _ in range(cols)] for _ in range(rows)]
BlankGrid(rows, cols) == [r \in 1 .. rows |-> [c \in 1 .. cols |-> <<>>]]

\* max(f(cell) for cell in cells)
MaxOf(S) == CHOOSE m \in S : \A n \in S : n <= m

\* a Python list index i into a list of n elements: the 1-based position, or 0
\* when list[i] raises IndexError
PyIndex(i, n) ==
    IF 0 <= i /\ i < n THEN i + 1
    ELSE IF i < 0 /\ 0 - n <= i THEN n + i + 1
    ELSE 0

\* row and column exchanged: grid[col][row] = text
GridSet_Transposed(grid, row, col, text) ==
    LET r == PyIndex(col, Len(grid))
        c == IF r = 0 THEN 0 ELSE PyIndex(row, Len(grid[r]))
    IN  IF r = 0 \/ c = 0 THEN [ok |-> FALSE, grid |-> grid]
        ELSE [ok |-> TRUE,
              grid |-> [grid EXCEPT ![r] = [grid[r] EXCEPT ![c] = text]]]

\* grid[row][col] = text
GridSet(grid, row, col, text) ==
    LET r == PyIndex(row, Len(grid))
        c == IF r = 0 THEN 0 ELSE PyIndex(col, Len(grid[r]))
    IN  IF r = 0 \/ c = 0 THEN [ok |-> FALSE, grid |-> grid]
        ELSE [ok |-> TRUE,
              grid |-> [grid EXCEPT ![r] = [grid[r] EXCEPT ![c] = text]]]

\* the fill loop over the CELL children from cell k on; it stops at the first
\* IndexError
RECURSIVE FillFrom(_, _, _, _)
FillFrom(blks, cells, k, grid) ==
    IF k > Len(cells) THEN [ok |-> TRUE, grid |-> grid]
    ELSE LET w == GridSet(grid, GetRowIndex(cells[k]) - 1,
                          GetColumnIndex(cells[k]) - 1, CellText(blks, cells[k]))
         IN  IF w.ok THEN FillFrom(blks, cells, k + 1, w.grid) ELSE w

Skip == [kind |-> "skip", grid |-> <<>>]

\* one iteration of `for table_block in table_blocks`: the grid appended, a
\* `continue`, or an IndexError
ParseOne(blks, t) ==
    LET rows == GetRowSpan(t)
        cols == GetColumnSpan(t)
        declared == rows > 0 /\ cols > 0
        cells == IF "Relationships" \in t.has
                 THEN Resolve(blks, ChildIds(t.Relationships), "CELL")
                 ELSE <<>>
        grid == IF declared THEN BlankGrid(rows, cols)
                ELSE BlankGrid(MaxOf({GetRowIndex(cells[k]) : k \in DOMAIN cells}),
                               MaxOf({GetColumnIndex(cells[k]) : k \in DOMAIN cells}))
    IN  IF "Relationships" \notin t.has THEN Skip
        ELSE IF ~declared /\ cells = <<>> THEN Skip
        ELSE LET filled == FillFrom(blks, cells, 1, grid)
             IN  IF filled.ok THEN [kind |-> "grid", grid |-> filled.grid]
                 ELSE [kind |-> "raise", grid |-> <<>>]

\* the body of the loop for the next TABLE block
ParseTable ==
    /\ ppc = "run"
    /\ tpos < Len(TableBlocks(blocks))
    /\ LET res == ParseOne(blocks, TableBlocks(blocks)[tpos + 1])
       IN  /\ ptables' = IF res.kind = "grid" THEN Append(ptables, res.grid) ELSE ptables
           /\ ppc' = IF res.kind = "raise" THEN "raised" ELSE "run"
    /\ tpos' = tpos + 1
    /\ UNCHANGED blocks
    /\ UNCHANGED evars
    /\ UNCHANGED rvars

\* `return tables`
ParseReturn ==
    /\ ppc = "run"
    /\ tpos = Len(TableBlocks(blocks))
    /\ ppc' = "returned"
    /\ UNCHANGED <<blocks, tpos, ptables>>
    /\ UNCHANGED evars
    /\ UNCHANGED rvars

NextParse == ParseTable \/ ParseReturn

-----------------------------------------------------------------------------
(* Inputs of parse_textract_tables *)

\* largest RowSpan / ColumnSpan a TABLE block declares
MaxSpan == 2
\* largest RowIndex / ColumnIndex of a CELL block
MaxIndex == 2

Child(ids) == [Type |-> "CHILD", Ids |-> ids]
Other(ids) == [Type |-> "MERGED_CELL", Ids |-> ids]

Word(id, text) == Block(id, "WORD", {"Text"}, 0, 0, 0, 0, text, <<>>)

\* a CELL block; index 0 stands for a block without that key
Cell(id, ri, ci, hasRels, rels) ==
    Block(id, "CELL",
          (IF ri > 0 THEN {"RowIndex"} ELSE {})
              \cup (IF ci > 0 THEN {"ColumnIndex"} ELSE {})
              \cup (IF hasRels THEN {"Relationships"} ELSE {}),
          0, 0, ri, ci, <<>>, rels)

\* a TABLE block
Table(id, hasSpan, rs, cs, hasRels, rels) ==
    Block(id, "TABLE",
          (IF hasSpan THEN {"RowSpan", "ColumnSpan"} ELSE {})
              \cup (IF hasRels THEN {"Relationships"} ELSE {}),
          rs, cs, 0, 0, <<>>, rels)

\* the children of the second cell: none, one word, or two words around a
\* dangling id and an id that is no WORD
CellRelChoices ==
    { [has |-> FALSE, rels |-> <<>>],
      [has |-> TRUE, rels |-> <<Child(<<"w2">>)>>],
      [has |-> TRUE, rels |-> <<Other(<<"w1">>), Child(<<"w1", "zz", "c1", "w2">>)>>] }

\* the relationships of the table: absent, empty, the cells in either order,
\* cells among dangling ids and ids of other blocks, or no CELL child at all
TableRelChoices ==
    { [has |-> FALSE, rels |-> <<>>],
      [has |-> TRUE, rels |-> <<>>],
      [has |-> TRUE, rels |-> <<Child(<<"c1">>)>>],
      [has |-> TRUE, rels |-> <<Child(<<"c1", "c2">>)>>],
      [has |-> TRUE, rels |-> <<Child(<<"c2", "c1">>)>>],
      [has |-> TRUE, rels |-> <<Child(<<"zz", "c1", "w1">>), Other(<<"c1">>), Child(<<"c2">>)>>],
      [has |-> TRUE, rels |-> <<Other(<<"c1", "c2">>)>>],
      [has |-> TRUE, rels |-> <<Child(<<"zz", "w1">>)>>] }

\* an earlier TABLE block without a span, whose only child is the first cell
Table0 == Table("t0", FALSE, 0, 0, TRUE, <<Child(<<"c1">>)>>)

ExtractIdle ==
    /\ tables = <<>>
    /\ fields = <<>>
    /\ pc = "idle"
    /\ table_data = <<>>
    /\ header_row_idx = NoHeader
    /\ column_mapping = EmptyMapping
    /\ records = <<>>
    /\ clean_records = <<>>

InitParse ==
    /\ ExtractIdle
    /\ RunIdle
    /\ tpos = 0
    /\ ptables = <<>>
    /\ ppc = "run"
    /\ \E r1 \in 0 .. MaxIndex, k1 \in 0 .. MaxIndex,
          r2 \in 0 .. MaxIndex, k2 \in 0 .. MaxIndex :
       \E cr \in CellRelChoices, tr \in TableRelChoices :
       \E rs \in 0 .. MaxSpan, cs \in 0 .. MaxSpan, hasSpan \in BOOLEAN :
       \E first \in {<<>>, <<Table0>>} :
          /\ hasSpan \/ (rs = 0 /\ cs = 0)
          /\ blocks = <<Word("w2", <<"b">>),
                        Cell("c2", r2, k2, cr.has, cr.rels)>>
                      \o first
                      \o <<Table("t1", hasSpan, rs, cs, tr.has, tr.rels),
                           Cell("c1", r1, k1, TRUE, <<Child(<<"w1">>)>>),
                           Word("w1", <<"a">>)>>

SpecParse == InitParse /\ [][NextParse]_vars

-----------------------------------------------------------------------------
(* Claims about parse_textract_tables (SpecParse) *)

\* the TABLE block the next ParseTable step works on
NextTable == TableBlocks(blocks)[tpos + 1]
ParseStep == ppc = "run" /\ tpos < Len(TableBlocks(blocks))

\* the CELL children of a block, in child order
CellKids(t) ==
    IF "Relationships" \in t.has
    THEN Resolve(blocks, ChildIds(t.Relationships), "CELL")
    ELSE <<>>

DeclaredSpan(t) == GetRowSpan(t) > 0 /\ GetColumnSpan(t) > 0

InSpan(t, cell) ==
    /\ 1 <= GetRowIndex(cell) /\ GetRowIndex(cell) <= GetRowSpan(t)
    /\ 1 <= GetColumnIndex(cell) /\ GetColumnIndex(cell) <= GetColumnSpan(t)

SameSpot(a, b) ==
    GetRowIndex(a) = GetRowIndex(b) /\ GetColumnIndex(a) = GetColumnIndex(b)

\* the step appended a grid and did not raise
Emitted == ppc' = "run" /\ Len(ptables') = Len(ptables) + 1
NewGrid == ptables'[Len(ptables')]

\* the grid holds the text of cell kids[k] at the cell's own position
Placed(grid, kids, k) ==
    /\ GetRowIndex(kids[k]) \in DOMAIN grid
    /\ GetColumnIndex(kids[k]) \in DOMAIN grid[GetRowIndex(kids[k])]
    /\ grid[GetRowIndex(kids[k])][GetColumnIndex(kids[k])] = CellText(blocks, kids[k])

\* no later child of the table sits at the position of kids[k]
LastAtSpot(kids, k) == \A j \in DOMAIN kids : j > k => ~SameSpot(kids[j], kids[k])

C1_Pre(t) ==
    /\ DeclaredSpan(t)
    /\ CellKids(t) # <<>>
    /\ \A k \in DOMAIN CellKids(t) : InSpan(t, CellKids(t)[k])

\* C1 as stated: for a TABLE block with a declared span whose CELL children
\* all lie within the span, the grid holds every CELL child's text at
\* (row_index-1, column_index-1); no cell's text is lost or overwritten.
C1_Original ==
    [][ (ParseStep /\ C1_Pre(NextTable)) =>
            /\ Emitted
            /\ \A k \in DOMAIN CellKids(NextTable) :
                   Placed(NewGrid, CellKids(NextTable), k) ]_vars

\* C1 amended: under the same precondition the grid holds, at each CELL
\* child's position, the text of the last CELL child (in child order) with
\* those coordinates; every CELL child's text is therefore at its own position
\* when no two CELL children share coordinates.
C1_Lossless ==
    [][ (ParseStep /\ C1_Pre(NextTable)) =>
            /\ Emitted
            /\ \A k \in DOMAIN CellKids(NextTable) :
                   LastAtSpot(CellKids(NextTable), k)
                       => Placed(NewGrid, CellKids(NextTable), k) ]_vars

\* a table with a declared 2x2 span was reconstructed from two cells with
\* different texts at different positions, the second child in the first row
C1_Witness ==
    /\ ppc = "run"
    /\ tpos >= 1
    /\ LET t == TableBlocks(blocks)[tpos]
           kids == CellKids(t)
       IN  /\ GetRowSpan(t) = 2 /\ GetColumnSpan(t) = 2
           /\ Len(kids) = 2
           /\ InSpan(t, kids[1]) /\ InSpan(t, kids[2])
           /\ ~SameSpot(kids[1], kids[2])
           /\ CellText(blocks, kids[1]) # CellText(blocks, kids[2])
           /\ CellText(blocks, kids[2]) # <<>>
           /\ ptables # <<>>
           /\ Placed(ptables[Len(ptables)], kids, 1)
           /\ Placed(ptables[Len(ptables)], kids, 2)

\* the text expected at position (r, c) when only the cells within the span
\* are written: that of the last such cell there, or the empty string
InSpanTextAt(t, r, c) ==
    LET kids == CellKids(t)
        here == {k \in DOMAIN kids :
                    /\ InSpan(t, kids[k])
                    /\ GetRowIndex(kids[k]) = r /\ GetColumnIndex(kids[k]) = c}
    IN  IF here = {} THEN <<>> ELSE CellText(blocks, kids[MaxOf(here)])

\* C2 as stated: a CELL child whose row_index or column_index falls outside
\* the grid dimensions is dropped; the reconstruction completes without
\* raising, the cell's text is written nowhere and every in-range cell is
\* still placed.
C2_Dropped ==
    [][ (/\ ParseStep
         /\ DeclaredSpan(NextTable)
         /\ \E k \in DOMAIN CellKids(NextTable) : ~InSpan(NextTable, CellKids(NextTable)[k]))
        =>  /\ Emitted
            /\ NewGrid = [r \in 1 .. GetRowSpan(NextTable) |->
                            [c \in 1 .. GetColumnSpan(NextTable) |->
                                InSpanTextAt(NextTable, r, c)]] ]_vars

-----------------------------------------------------------------------------
(* Claims about the table merge and the header row (SpecMerge) *)

\* number of cells of a row that are non-empty after trimming
NonEmptyCells(row) == Cardinality({c \in DOMAIN row : Strip(row[c]) # <<>>})

\* number of cells of a row that are non-empty after trimming and are not a
\* lone apostrophe
LabelCells(row) ==
    Cardinality({c \in DOMAIN row : Strip(row[c]) # <<>> /\ Strip(row[c]) # <<"'">>})

\* 0-based index of the first row, among the first min(5, rows) rows of g,
\* whose count of non-empty trimmed cells is maximal; 0 for an empty scan
FirstFullest(g) ==
    LET n == Min(5, Len(g))
    IN  IF n = 0 THEN 0
        ELSE (CHOOSE k \in 1 .. n :
                 /\ \A j \in 1 .. n : NonEmptyCells(g[j]) <= NonEmptyCells(g[k])
                 /\ \A j \in 1 .. k - 1 : NonEmptyCells(g[j]) < NonEmptyCells(g[k])) - 1

RECURSIVE Flatten(_)
Flatten(ss) == IF ss = <<>> THEN <<>> ELSE Head(ss) \o Flatten(Tail(ss))

RECURSIVE SumSeq(_)
SumSeq(ns) == IF ns = <<>> THEN 0 ELSE Head(ns) + SumSeq(Tail(ns))

Merged == pc \in {"merged", "header", "mapped"} \/ (pc \in {"returned", "cleaned"} /\ tables # <<>>)

\* C4: the merged grid is the first grid in full followed, for each later grid
\* in source order, by its rows strictly after index h, h being the first
\* index among its first min(5, rows) rows with the maximal count of
\* non-empty trimmed cells (0 when all scanned rows are empty).
C4_MergedGrid ==
    Merged =>
        table_data =
            Flatten([i \in 1 .. Len(tables) |->
                        IF i = 1 THEN tables[1]
                        ELSE SubSeq(tables[i], FirstFullest(tables[i]) + 2, Len(tables[i]))])

\* three tables were merged; the second lost two leading rows and kept one,
\* the third lost its only row
C4_Witness ==
    /\ pc = "merged"
    /\ Len(tables) = 3
    /\ Len(tables[2]) = 3
    /\ FirstFullest(tables[2]) = 1
    /\ Len(tables[3]) = 1
    /\ Len(table_data) = Len(tables[1]) + 1

\* number of leading rows of g equal to hdr
RECURSIVE LeadingCopies(_, _)
LeadingCopies(g, hdr) ==
    IF g = <<>> \/ Head(g) # hdr THEN 0 ELSE 1 + LeadingCopies(Tail(g), hdr)

\* h_i: the number of leading rows of grid i that are copies of the header
\* row of grid 0 (its first row)
HeaderCopies(i) ==
    IF tables[1] = <<>> THEN 0 ELSE LeadingCopies(tables[i], tables[1][1])

C3_Pre ==
    /\ tables[1] # <<>>
    /\ \A i \in 2 .. Len(tables) :
          /\ tables[i] # <<>>
          /\ tables[i][1] = tables[1][1]
          /\ \A k \in 1 .. Min(5, Len(tables[i])) :
                 NonEmptyCells(tables[i][k]) <= NonEmptyCells(tables[1][1])

C5_HeaderIndex ==
    header_row_idx # NoHeader =>
        LET n == Min(5, Len(table_data))
            h == header_row_idx + 1
        IN  /\ 0 <= header_row_idx /\ header_row_idx < n
            /\ \A k \in 1 .. n : LabelCells(table_data[k]) <= LabelCells(table_data[h])
            /\ \A k \in 1 .. h - 1 : LabelCells(table_data[k]) < LabelCells(table_data[h])
            /\ (\A k \in 1 .. n : LabelCells(table_data[k]) = 0) => header_row_idx = 0

\* the header was detected after a row holding a lone apostrophe, in a grid
\* whose sixth row has more labels than the chosen row
C5_Witness ==
    /\ pc = "header"
    /\ Len(table_data) = 6
    /\ header_row_idx >= 1
    /\ LabelCells(table_data[6]) > LabelCells(table_data[header_row_idx + 1])
    /\ \E k \in 1 .. header_row_idx : \E c \in DOMAIN table_data[k] : table_data[k][c] = Ap

-----------------------------------------------------------------------------
(* Claims about the column mapping and the records (SpecMap) *)

\* the trimmed, case-insensitive label of a header cell
Label(h) == Lower(Strip(h))

AllBlank(hs) == \A c \in DOMAIN hs : Strip(hs[c]) = <<>>

\* the trimmed, case-insensitive header strings are not all distinct
RepeatedLabel(hs) ==
    \E c, d \in DOMAIN hs : c # d /\ Label(hs[c]) = Label(hs[d])

\* the column mapping has been built
Mapped == pc = "mapped" \/ (pc \in {"returned", "cleaned"} /\ header_row_idx # NoHeader)

\* column i -> field[i].name for every column when the counts agree, else empty
IsPositional ==
    IF Len(Headers) = Len(fields)
    THEN /\ DOMAIN column_mapping = 0 .. Len(fields) - 1
         /\ \A c \in DOMAIN column_mapping : column_mapping[c] = fields[c + 1].name
    ELSE DOMAIN column_mapping = {}

\* C6: when every header cell is empty/whitespace, or the trimmed
\* case-insensitive header strings are not all distinct, the mapping is
\* {i -> field[i].name} for every column i if the header cell count equals the
\* field count, and is empty otherwise.
C6_Positional ==
    (Mapped /\ (AllBlank(Headers) \/ RepeatedLabel(Headers))) => IsPositional

\* a header of three cells, two of them the same label in different case, was
\* mapped by position to three fields
C6_Witness ==
    /\ pc = "mapped"
    /\ Len(Headers) = 3 /\ Len(fields) = 3
    /\ \E c, d \in DOMAIN Headers :
          /\ c # d /\ Headers[c] # Headers[d]
          /\ Strip(Headers[c]) # <<>>
          /\ Label(Headers[c]) = Label(Headers[d])
    /\ DOMAIN column_mapping = {0, 1, 2}
    /\ column_mapping # FuzzyMapping(Headers, fields)

\* max(sim(header, f.name), sim(header, f.display_name)), case-insensitive
LabelScore(h, f) ==
    LET s1 == similarity(Lower(h), Lower(f.name))
        s2 == similarity(Lower(h), Lower(f.displayName))
    IN  IF s1.num * s2.den >= s2.num * s1.den THEN s1 ELSE s2

ScoreLeq(x, y) == x.num * y.den <= y.num * x.den

\* the earliest field, in schema order, with the maximum score for header h
BestField(h) ==
    CHOOSE k \in DOMAIN fields :
        /\ \A j \in DOMAIN fields : ScoreLeq(LabelScore(h, fields[j]), LabelScore(h, fields[k]))
        /\ \A j \in 1 .. k - 1 :
               ~ScoreLeq(LabelScore(h, fields[k]), LabelScore(h, fields[j]))

\* column c is mapped to the best field iff its score strictly exceeds 0.5
FuzzyRule(c) ==
    IF fields = <<>> THEN c \notin DOMAIN column_mapping
    ELSE LET k == BestField(Headers[c + 1])
             s == LabelScore(Headers[c + 1], fields[k])
         IN  /\ c \in DOMAIN column_mapping <=> 2 * s.num > s.den
             /\ c \in DOMAIN column_mapping => column_mapping[c] = fields[k].name

C8_FuzzyThreshold ==
    (Mapped /\ ~UsePositional(Headers)) =>
        \A c \in 0 .. Len(Headers) - 1 :
            Strip(Headers[c + 1]) # <<>> => FuzzyRule(c)

\* the fuzzy branch left a column whose best score is exactly 0.5 unmapped and
\* mapped another column to the earlier of two fields with equal scores
C8_Witness ==
    /\ pc = "mapped"
    /\ ~UsePositional(Headers)
    /\ Len(fields) >= 2
    /\ \E c \in 0 .. Len(Headers) - 1 :
          LET s == LabelScore(Headers[c + 1], fields[BestField(Headers[c + 1])])
          IN  2 * s.num = s.den /\ c \notin DOMAIN column_mapping
    /\ \E c \in DOMAIN column_mapping :
          LET k == BestField(Headers[c + 1])
          IN  /\ column_mapping[c] = fields[k].name
              /\ \E j \in DOMAIN fields :
                    /\ j > k
                    /\ LabelScore(Headers[c + 1], fields[j]) = LabelScore(Headers[c + 1], fields[k])

\* the records have been assembled from a detected header
Extracted == pc \in {"returned", "cleaned"} /\ header_row_idx # NoHeader

\* the fields mapped from the columns present in the row
RowKeys(row) == {column_mapping[c] : c \in {d \in DOMAIN column_mapping : d < Len(row)}}

\* the last column of the row that is mapped to field f
LastCol(row, f) ==
    MaxOf({c \in DOMAIN column_mapping : c < Len(row) /\ column_mapping[c] = f})

\* the fields of the row's record whose value is not empty
Populated(row) == {f \in RowKeys(row) : Strip(row[LastCol(row, f) + 1]) # <<>>}

\* ceil(0.5 x field_count)
Threshold == (Len(fields) + 1) \div 2

\* the j-th smallest element of a set of numbers
NthOf(S, j) == CHOOSE k \in S : Cardinality({m \in S : m < k}) = j - 1

\* the records are those of the data rows in `kept`, in row order
RecordsAre(kept) ==
    /\ Len(records) = Cardinality(kept)
    /\ \A j \in DOMAIN records : DOMAIN records[j] = RowKeys(DataRows[NthOf(kept, j)])

\* C9 as stated: a data row is kept iff its number of populated fields is at
\* least ceil(0.5 x field_count).
C9_Original ==
    Extracted =>
        RecordsAre({k \in DOMAIN DataRows : Cardinality(Populated(DataRows[k])) >= Threshold})

KeptRows == {k \in DOMAIN DataRows : Cardinality(RowKeys(DataRows[k])) >= Threshold}

\* C9 amended: a data row is kept iff the number of keys of its raw record
\* (the fields mapped from columns present in the row, whether or not the cell
\* is empty) is at least ceil(0.5 x field_count); with 9 fields a row with 3
\* keys is dropped and a row with 5 keys is kept; a dropped row does not stop
\* the later rows.
C9_Coverage ==
    Extracted =>
        /\ RecordsAre(KeptRows)
        /\ Len(fields) = 9 =>
              \A k \in DOMAIN DataRows :
                  /\ Cardinality(RowKeys(DataRows[k])) = 3 => k \notin KeptRows
                  /\ Cardinality(RowKeys(DataRows[k])) = 5 => k \in KeptRows

\* with nine fields, a first row with 3 keys was dropped and the following row
\* with 5 keys was kept
C9_Witness ==
    /\ pc = "returned"
    /\ header_row_idx # NoHeader
    /\ Len(fields) = 9
    /\ Len(DataRows) = 2
    /\ Cardinality(RowKeys(DataRows[1])) = 3
    /\ Cardinality(RowKeys(DataRows[2])) = 5
    /\ Len(records) = 1
    /\ Cardinality(DOMAIN records[1]) = 5

\* pairwise-distinct non-empty labels
CleanHeader(hs) == (\A c \in DOMAIN hs : Strip(hs[c]) # <<>>) /\ ~RepeatedLabel(hs)

NonNull(rec) == Cardinality({k \in DOMAIN rec : rec[k] # Null})

\* the non-empty cells of the row that lie in mapped columns
MappedCells(row) ==
    {c \in DOMAIN column_mapping : c < Len(row) /\ Strip(row[c + 1]) # <<>>}

RoundTrip == pc = "cleaned" /\ header_row_idx # NoHeader /\ Len(tables) = 1 /\ CleanHeader(Headers)

\* C10 as stated: for a single table with a clean unique header, every
\* extracted-then-cleaned record has as many non-null fields as its source row
\* has non-empty cells in mapped columns.
C10_Original ==
    RoundTrip =>
        \A j \in DOMAIN clean_records :
            NonNull(clean_records[j]) =
                Cardinality(MappedCells(DataRows[NthOf(KeptRows, j)]))

\* C10 amended: the number of non-null fields of a cleaned record equals the
\* number of fields, with a name that does not begin with '_', whose
\* highest-index mapped column in the source row holds a non-empty cell; it
\* equals the number of non-empty cells in mapped columns when no two columns
\* of the row map to the same field and no mapped field name begins with '_'.
C10_RoundTrip ==
    RoundTrip =>
        \A j \in DOMAIN clean_records :
            LET row == DataRows[NthOf(KeptRows, j)]
                injective == \A c, d \in DOMAIN column_mapping :
                                 column_mapping[c] = column_mapping[d] => c = d
                public == \A c \in DOMAIN column_mapping : ~Private(column_mapping[c])
            IN  /\ NonNull(clean_records[j]) =
                       Cardinality({f \in Populated(row) : ~Private(f)})
                /\ (injective /\ public) =>
                       NonNull(clean_records[j]) = Cardinality(MappedCells(row))

\* a cleaned record with a null and a non-null field came from a row under a
\* clean header with an injective mapping
C10_Witness ==
    /\ RoundTrip
    /\ \A c, d \in DOMAIN column_mapping : column_mapping[c] = column_mapping[d] => c = d
    /\ \E j \in DOMAIN clean_records :
          /\ NonNull(clean_records[j]) = 1
          /\ Cardinality(DOMAIN clean_records[j]) = 2
          /\ Cardinality(MappedCells(DataRows[NthOf(KeptRows, j)])) = 1

-----------------------------------------------------------------------------
(* clean_record applied to records of any origin, and applied again to its   *)
(* own output (SpecClean)                                                    *)

\* [clean_record(r) for r in clean_records]: the cleaner run on its own output
CleanAgain ==
    /\ pc = "cleaned"
    /\ records' = clean_records
    /\ clean_records' = [k \in DOMAIN clean_records |-> clean_record(clean_records[k])]
    /\ pc' = "recleaned"
    /\ UNCHANGED <<tables, fields, table_data, header_row_idx, column_mapping>>
    /\ UNCHANGED pvars
    /\ UNCHANGED rvars

NextClean ==
    \/ CleanRecords
    \/ CleanAgain

\* length of the enumerated string values
MaxLen == 3

CleanChars == {"'", "-", "+", ".", "5", "0", "%", ",", " ", "a"}

kV == <<"v">>
kW == <<"w">>
kId == <<"_","i","d">>

S1234 == <<"'","1",",","2","3","4","%">>
S125 == <<"1","2",".","5","%">>
SNA == <<"N","/","A">>
\* the four values of the cleaning examples, under four keys
ExampleRecord ==
    [k \in {<<"a">>, <<"b">>, <<"c">>, <<"d">>} |->
        IF k = <<"a">> THEN Str(S1234)
        ELSE IF k = <<"b">> THEN Str(S125)
        ELSE IF k = <<"c">> THEN Str(<<>>)
        ELSE Str(SNA)]

LongStrings ==
    { <<"'","'","'","5","0">>, <<"-","1","2",".","5","0">>, <<"1",".","2",".","3">>,
      <<"+","-","5","0">>, <<" ","'","5"," ">>, <<"5",",","0","0","0",".","0">> }

\* values that are not strings
OtherValues == {Null, IntVal(5), IntVal(0 - 5), FloatVal(125, 1), BoolVal(TRUE), BoolVal(FALSE)}

CleanInputs ==
    {[k \in {kV} |-> Str(s)] : s \in SeqsUpTo(CleanChars, MaxLen) \cup LongStrings}
    \cup {[k \in {kV} |-> v] : v \in OtherValues}
    \cup {[k \in {kV, kId} |-> IF k = kV THEN v ELSE Str(<<"5">>)] :
             v \in OtherValues \cup {Str(<<>>), Str(<<"5">>), Str(<<"a">>)}}
    \cup {[k \in {kV, kW} |-> IF k = kV THEN IntVal(5) ELSE v] :
             v \in {Null, Str(<<"a", " ">>), Str(<<"'", "5">>)}}
    \cup {ExampleRecord, EmptyRecord, [k \in {kId} |-> Null]}

InitClean ==
    /\ ParseIdle
    /\ RunIdle
    /\ tables = <<>>
    /\ fields = <<>>
    /\ pc = "returned"
    /\ table_data = <<>>
    /\ header_row_idx = NoHeader
    /\ column_mapping = EmptyMapping
    /\ \E r \in CleanInputs : records = <<r>>
    /\ clean_records = <<>>

SpecClean == InitClean /\ [][NextClean]_vars

-----------------------------------------------------------------------------
(* Claims about clean_record (SpecClean) *)

\* the record cleaned and its cleaned form, after the first cleaning
Cleaned == pc = "cleaned"

\* the keys of input record j that hold a non-empty string and survive cleaning
TextKeys(j) ==
    {k \in DOMAIN records[j] \cap DOMAIN clean_records[j] :
        records[j][k].t = "str" /\ records[j][k].s # <<>>}

DecimalDigits == {"0", "1", "2", "3", "4", "5", "6", "7", "8", "9"}

\* an optional single leading sign, at least one digit, at most one decimal point
NumericPattern(n) ==
    LET u == IF n # <<>> /\ n[1] \in {"+", "-"} THEN Tail(n) ELSE n
    IN  /\ \A i \in DOMAIN u : u[i] \in DecimalDigits \cup {"."}
        /\ \E i \in DOMAIN u : u[i] \in DecimalDigits
        /\ Cardinality({i \in DOMAIN u : u[i] = "."}) <= 1

HasDot(n) == \E i \in DOMAIN n : n[i] = "."

\* C11: for every non-empty string value v, clean_record yields a number iff
\* the normalized form of v is an optional single leading sign, at least one
\* digit and at most one decimal point; a float when the normalized form
\* contains '.', otherwise an integer; in every other case the cleaned value
\* is exactly the original string v.
C11_NumericPattern ==
    Cleaned =>
        \A j \in DOMAIN records : \A k \in TextKeys(j) :
            LET v == records[j][k]
                n == Normalize(v.s)
                out == clean_records[j][k]
            IN  IF NumericPattern(n)
                THEN out.t = (IF HasDot(n) THEN "float" ELSE "int")
                ELSE out = v

\* a value whose normalized form passes the digit test but has its sign out of
\* the leading position (a parse failure) was kept as the original string
C11_Witness ==
    /\ Cleaned
    /\ \E j \in DOMAIN records : \E k \in TextKeys(j) :
          LET n == Normalize(records[j][k].s)
          IN  /\ LooksNumeric(n)
              /\ ~NumericPattern(n)
              /\ n # records[j][k].s
              /\ clean_records[j][k] = records[j][k]

\* two or more apostrophes followed by digits only
Apostrophes(s) == {i \in DOMAIN s : \A m \in 1 .. i : s[m] = "'"}

QuotedDigits(s) ==
    /\ Cardinality(Apostrophes(s)) >= 2
    /\ Cardinality(Apostrophes(s)) < Len(s)
    /\ \A i \in DOMAIN s \ Apostrophes(s) : s[i] \in DecimalDigits

\* C12 as stated: a string value beginning with two or more apostrophes
\* followed by digits keeps one apostrophe after normalization and is cleaned
\* to the original string.
C12_Original ==
    Cleaned =>
        \A j \in DOMAIN records : \A k \in TextKeys(j) :
            QuotedDigits(records[j][k].s) => clean_records[j][k] = records[j][k]

Removed(c) == c \in {"%", ",", " "}
Kept(c) == ~Removed(c)

\* every leading apostrophe dropped, then every percent sign, comma and space
\* removed, then surrounding whitespace trimmed
NormalForm(s) ==
    LET q == Cardinality(Apostrophes(s))
    IN  Strip(SelectSeq(SubSeq(s, q + 1, Len(s)), Kept))

\* C12 amended: normalization strips every leading apostrophe and removes
\* percent signs, commas and spaces at every position; a string value of two
\* or more apostrophes followed by digits is cleaned to the integer those
\* digits denote.
C12_AllApostrophes ==
    Cleaned =>
        \A j \in DOMAIN records : \A k \in TextKeys(j) :
            LET s == records[j][k].s
            IN  /\ Normalize(s) = NormalForm(s)
                /\ \A i \in DOMAIN NormalForm(s) : Kept(NormalForm(s)[i])
                /\ QuotedDigits(s) =>
                       /\ clean_records[j][k].t = "int"
                       /\ clean_records[j][k].n =
                              DigitsValue(SubSeq(s, Cardinality(Apostrophes(s)) + 1, Len(s)))

\* "''5" was cleaned to the integer 5
C12_Witness ==
    /\ Cleaned
    /\ \E j \in DOMAIN records : \E k \in TextKeys(j) :
          /\ records[j][k].s = <<"'", "'", "5">>
          /\ clean_records[j][k] = IntVal(5)

\* C13: clean_record maps "'1,234%" to the integer 1234, "12.5%" to the float
\* 12.5, "" to null and "N/A" to the unchanged string "N/A".
C13_Examples ==
    Cleaned =>
        \A j \in DOMAIN records : \A k \in DOMAIN clean_records[j] :
            /\ records[j][k] = Str(S1234) => clean_records[j][k] = IntVal(1234)
            /\ records[j][k] = Str(S125) => clean_records[j][k] = FloatVal(125, 1)
            /\ records[j][k] = Str(<<>>) => clean_records[j][k] = Null
            /\ records[j][k] = Str(SNA) => clean_records[j][k] = Str(SNA)

\* the record holding the four example values was cleaned
C13_Witness ==
    /\ Cleaned
    /\ records = <<ExampleRecord>>
    /\ {clean_records[1][k] : k \in DOMAIN clean_records[1]} =
           {IntVal(1234), FloatVal(125, 1), Null, Str(SNA)}

\* C14: clean_record(clean_record(r)) = clean_record(r): numbers and nulls of
\* a first cleaning are unchanged by a second, and strings kept by the first
\* are kept identically by the second.
C14_Idempotent ==
    pc = "recleaned" => clean_records = records

\* a record with a number and a kept string went through both cleanings
C14_Witness ==
    /\ pc = "recleaned"
    /\ \E k, l \in DOMAIN clean_records[1] :
          /\ clean_records[1][k].t = "int"
          /\ clean_records[1][l].t = "str"

\* C15: the key set of clean_record's output is exactly the input keys that
\* do not begin with '_'; an empty string or null becomes null; a non-string,
\* non-null value is returned unchanged; when the input values are strings, as
\* they are in the table path, every output value is a string, an integer, a
\* float or null.
C15_KeysAndTypes ==
    Cleaned =>
        \A j \in DOMAIN records :
            LET r == records[j]
                out == clean_records[j]
            IN  /\ DOMAIN out = {k \in DOMAIN r : k = <<>> \/ k[1] # "_"}
                /\ \A k \in DOMAIN out :
                       /\ r[k] \in {Str(<<>>), Null} => out[k] = Null
                       /\ r[k].t \notin {"str", "null"} => out[k] = r[k]
                /\ (\A k \in DOMAIN r : r[k].t = "str") =>
                       \A k \in DOMAIN out : out[k].t \in {"str", "int", "float", "null"}

\* a record with a private key and a boolean value was cleaned: the private
\* key is gone and the boolean is unchanged
C15_Witness ==
    /\ Cleaned
    /\ kId \in DOMAIN records[1]
    /\ kId \notin DOMAIN clean_records[1]
    /\ kV \in DOMAIN clean_records[1]
    /\ records[1][kV].t = "bool"
    /\ clean_records[1][kV] = records[1][kV]

-----------------------------------------------------------------------------
(* Claims about the raw records (SpecMerge) *)

\* the grid row, counted in the merged grid, that the j-th record came from
SourceRow(j) == table_data[header_row_idx + 1 + NthOf(KeptRows, j)]

\* the mapped columns that exist in the row
MappedCols(row) == {c \in DOMAIN column_mapping : c < Len(row)}

\* C16: raw records are built only from grid rows strictly after the detected
\* header row, in row order; each raw record contains exactly the fields of
\* the mapped columns of its row, each holding the trimmed cell of a column
\* mapped to it: an unmapped column contributes no key, and a field with no
\* mapped column is absent, never present with a null value.
C16_RawRecords ==
    Extracted =>
        /\ Len(records) = Cardinality(KeptRows)
        /\ \A j \in DOMAIN records :
               LET row == SourceRow(j)
               IN  /\ DOMAIN records[j] = {column_mapping[c] : c \in MappedCols(row)}
                   /\ \A f \in DOMAIN records[j] :
                          /\ records[j][f].t = "str"
                          /\ \E c \in MappedCols(row) :
                                 /\ column_mapping[c] = f
                                 /\ records[j][f].s = Strip(row[c + 1])

\* under a header that is not the first row and has an unmatched column, two
\* records were built from the two rows after it; the unmatched column gave
\* no key and the field without a column is absent
C16_Witness ==
    /\ pc = "returned"
    /\ header_row_idx > 0
    /\ Len(table_data) = header_row_idx + 3
    /\ DOMAIN column_mapping = {0}
    /\ Len(fields) = 2
    /\ Len(records) = 2
    /\ \A j \in DOMAIN records :
          /\ DOMAIN records[j] = {column_mapping[0]}
          /\ records[j][column_mapping[0]] = Str(Strip(table_data[header_row_idx + 1 + j][1]))
    /\ records[1] # records[2]

-----------------------------------------------------------------------------
(* Claims about the shape of the grids and about unresolved children         *)
(* (SpecParse)                                                               *)

\* the dimensions the grid of table t is to have
GridRows(t) ==
    IF DeclaredSpan(t) THEN GetRowSpan(t)
    ELSE MaxOf({GetRowIndex(CellKids(t)[k]) : k \in DOMAIN CellKids(t)})
GridCols(t) ==
    IF DeclaredSpan(t) THEN GetColumnSpan(t)
    ELSE MaxOf({GetColumnIndex(CellKids(t)[k]) : k \in DOMAIN CellKids(t)})

\* some CELL child of t has the 1-based coordinates (r, c)
Occupied(t, r, c) ==
    \E k \in DOMAIN CellKids(t) :
        GetRowIndex(CellKids(t)[k]) = r /\ GetColumnIndex(CellKids(t)[k]) = c

C18_NoTable ==
    [][ (ParseStep /\ CellKids(NextTable) = <<>>) =>
            (ptables' = ptables /\ ppc' = "run") ]_vars

\* the id is the Id of some block of the input
Resolves(id) == \E i \in DOMAIN blocks : blocks[i].Id = id

\* the relationships with the ids that resolve to no block removed
PruneRels(rels) ==
    [i \in DOMAIN rels |-> [rels[i] EXCEPT !.Ids = SelectSeq(rels[i].Ids, Resolves)]]

PruneBlock(b) == [b EXCEPT !.Relationships = PruneRels(b.Relationships)]

\* the same graph without its dangling ids
Pruned == [i \in DOMAIN blocks |-> PruneBlock(blocks[i])]

\* a child id of block b resolves to no block
HasDangling(b) ==
    \E i \in DOMAIN b.Relationships : \E m \in DOMAIN b.Relationships[i].Ids :
        ~Resolves(b.Relationships[i].Ids[m])

\* the table, or one of its CELL children, has a dangling child id
DanglingReached(t) ==
    HasDangling(t) \/ \E k \in DOMAIN CellKids(t) : HasDangling(CellKids(t)[k])

\* C19: a child id of a TABLE or CELL block that resolves to no block never
\* raises and changes the text or position of no cell: the outcome for the
\* table, and its grid, are those of the same graph with the dangling ids
\* removed.
C19_DanglingSkipped ==
    [][ (ParseStep /\ DanglingReached(NextTable)) =>
            LET clean == ParseOne(Pruned, PruneBlock(NextTable))
            IN  /\ (ppc' = "raised") <=> (clean.kind = "raise")
                /\ ptables' = IF clean.kind = "grid"
                              THEN Append(ptables, clean.grid) ELSE ptables ]_vars

\* a table with a dangling child id, one of whose two cells has a dangling
\* child id among its words, was reconstructed with both cells' texts
C19_Witness ==
    /\ ppc = "run"
    /\ tpos >= 1
    /\ ptables # <<>>
    /\ LET t == TableBlocks(blocks)[tpos]
           kids == CellKids(t)
       IN  /\ HasDangling(t)
           /\ Len(kids) = 2
           /\ \E k \in DOMAIN kids : HasDangling(kids[k])
           /\ ~SameSpot(kids[1], kids[2])
           /\ \A k \in DOMAIN kids :
                 /\ CellText(blocks, kids[k]) # <<>>
                 /\ Placed(ptables[Len(ptables)], kids, k)

-----------------------------------------------------------------------------
(* The worked example of the fuzzy mapping (SpecMap) *)

\* C20: for the header row ["Brand", "Type", "YTD Rank"] and the fields brand,
\* type, ytd_rank (display name equal to name) the column mapping is exactly
\* {0: brand, 1: type, 2: ytd_rank}, each accepted with a score above 0.5.
C20_RankExample ==
    (Mapped /\ Headers = RankHeader /\ fields = RankFields) =>
        /\ DOMAIN column_mapping = {0, 1, 2}
        /\ \A c \in {0, 1, 2} :
               /\ column_mapping[c] = RankFields[c + 1].name
               /\ LET s == LabelScore(RankHeader[c + 1], RankFields[c + 1])
                  IN  2 * s.num > s.den

\* the example header was mapped; "YTD Rank" went to ytd_rank with 14/16
C20_Witness ==
    /\ pc = "mapped"
    /\ Headers = RankHeader
    /\ fields = RankFields
    /\ 2 \in DOMAIN column_mapping
    /\ column_mapping[2] = <<"y","t","d","_","r","a","n","k">>
    /\ LET s == similarity(Lower(YtdRank), column_mapping[2])
       IN  s.num * 16 = 14 * s.den

-----------------------------------------------------------------------------
(* run_extraction.main, BaseExtractor and the AI extractors.                 *)
(* A list of records is kept as runs [a, n, kind]: n records extracted from  *)
(* artifact a, each an empty dict ("empty") or not ("data"); run and         *)
(* load_data never look inside a record. An insert call is kept as the       *)
(* slice [lo, hi) of all_records it sent and whether it succeeded.           *)

\* batch_size
BatchSize == 1000

\* the keys of extractor_map
Supported == {"json", "csv", "html", "email"}
\* the keys __init__ reads from config
Required == {"entity_id", "template_id", "source_id"}

\* len() of a list of runs
RECURSIVE Size(_)
Size(runs) == IF runs = <<>> THEN 0 ELSE Head(runs).n + Size(Tail(runs))

\* update_job_progress(job_id, ..., status) on row j; `ok` is whether the
\* update call succeeds, its exception being swallowed
UpdateJob(j, status, ok) ==
    IF inv.job_id /\ inv.client /\ ok
    THEN [status |-> status, log |-> Append(j.log, status)]
    ELSE j

\* supabase.table('pipeline_jobs').update(...).execute() in main raises:
\* AttributeError when the client is None, or the call fails
StoreRaises(ok) == ~inv.client \/ ~ok

\* the store credentials are not looked at
ConstructFails_NoCredentials(i) == ~(Required \subseteq i.keys) \/ ~i.loads

\* BaseExtractor.__init__ raises: KeyError, ValueError, or a failed lookup
ConstructFails(i) == ~(Required \subseteq i.keys) \/ ~i.creds \/ ~i.loads

\* a service failure lets the exception out
AiExtract_Raising(art) ==
    IF art.content \in {"other", "missing"} \/ art.service \in {"error", "badjson"}
    THEN [raised |-> TRUE, n |-> 0, kind |-> "empty"]
    ELSE [raised |-> FALSE, n |-> 1,
          kind |-> IF art.service = "ok" THEN "data" ELSE "empty"]

\* HTMLExtractorComponent.extract / EmailExtractorComponent.extract
AiExtract(art) ==
    IF art.content \in {"other", "missing"}
    THEN [raised |-> TRUE, n |-> 0, kind |-> "empty"]
    ELSE [raised |-> FALSE, n |-> 1,
          kind |-> IF art.service = "ok" THEN "data" ELSE "empty"]

\* self.extract(artifact) of the selected extractor class
ExtractResult(type, art) ==
    IF type \in {"html", "email"} THEN AiExtract(art)
    ELSE [raised |-> art.raises, n |-> art.n, kind |-> "data"]

\* an exception leaves main through its handler, and leaves a caller of the
\* component as it is
Caught == IF inv.entry = "main" THEN "except" ELSE "raised"

\* the offset i of the next iteration of `for i in range(0, len(records), batch_size)`
NextOffset == BatchSize * Len(chunks)

\* extractor_class = extractor_map.get(...); `if not extractor_class: ... sys.exit(1)`
SelectExtractor ==
    /\ rpc = "select"
    /\ IF inv.artifact_type \in Supported
       THEN /\ rpc' = "try"
            /\ UNCHANGED <<printed, exit_code>>
       ELSE /\ printed' = Append(printed, FALSE)
            /\ exit_code' = 1
            /\ rpc' = "exited"
    /\ UNCHANGED <<inv, job, artifacts, apos, all_records, chunks, total_loaded, result>>
    /\ UNCHANGED <<pvars, evars>>

\* update_job_progress(job_id, 0, 0, 'Starting extraction...', 'running')
MarkRunning ==
    /\ rpc = "try"
    /\ \E ok \in BOOLEAN : job' = UpdateJob(job, "running", ok)
    /\ rpc' = "construct"
    /\ UNCHANGED <<inv, printed, exit_code, artifacts, apos, all_records, chunks,
                   total_loaded, result>>
    /\ UNCHANGED <<pvars, evars>>

\* extractor = extractor_class(config)
Construct ==
    /\ rpc = "construct"
    /\ rpc' = IF ConstructFails(inv) THEN Caught ELSE "fetch"
    /\ UNCHANGED <<inv, job, printed, exit_code, artifacts, apos, all_records, chunks,
                   total_loaded, result>>
    /\ UNCHANGED <<pvars, evars>>

\* artifacts = self.fetch_artifacts()
Fetch ==
    /\ rpc = "fetch"
    /\ IF inv.source = "raise"
       THEN /\ rpc' = Caught
            /\ UNCHANGED artifacts
       ELSE /\ artifacts' = inv.files
            /\ rpc' = IF inv.files = <<>> THEN "load" ELSE "extract"
    /\ UNCHANGED <<inv, job, printed, exit_code, apos, all_records, chunks,
                   total_loaded, result>>
    /\ UNCHANGED <<pvars, evars>>

\* the records of a later artifact are put in front
Accumulate_Prepend(all, a, res) ==
    IF res.raised \/ res.n = 0 THEN all
    ELSE <<[a |-> a, n |-> res.n, kind |-> res.kind]>> \o all

\* try: all_records.extend(self.extract(artifact)); except: continue
Accumulate(all, a, res) ==
    IF res.raised \/ res.n = 0 THEN all
    ELSE Append(all, [a |-> a, n |-> res.n, kind |-> res.kind])

\* one iteration of `for artifact in artifacts`
Extract ==
    /\ rpc = "extract"
    /\ all_records' = Accumulate(all_records, apos + 1,
                                 ExtractResult(inv.artifact_type, artifacts[apos + 1]))
    /\ apos' = apos + 1
    /\ rpc' = IF apos + 1 = Len(artifacts) THEN "load" ELSE "extract"
    /\ UNCHANGED <<inv, job, printed, exit_code, artifacts, chunks, total_loaded, result>>
    /\ UNCHANGED <<pvars, evars>>

\* the loop also ends at the first batch whose insert failed
LoopDone_AbortOnFailure ==
    \/ NextOffset >= Size(all_records)
    \/ chunks # <<>> /\ ~chunks[Len(chunks)].ok

\* `if not records: return 0`, or the range of the batch loop is exhausted
LoopDone == NextOffset >= Size(all_records)

\* one iteration of the batch loop of load_data
LoadBatch ==
    /\ rpc = "load"
    /\ ~LoopDone
    /\ \E ok \in BOOLEAN :
          LET hi == Min(NextOffset + BatchSize, Size(all_records))
          IN  /\ chunks' = Append(chunks, [lo |-> NextOffset, hi |-> hi, ok |-> ok])
              /\ total_loaded' = IF ok THEN total_loaded + (hi - NextOffset)
                                 ELSE total_loaded
    /\ UNCHANGED <<inv, rpc, job, printed, exit_code, artifacts, apos, all_records, result>>
    /\ UNCHANGED <<pvars, evars>>

\* load_data returns (at once for an empty list), and run returns its statistics
RunReturn ==
    /\ rpc = "load"
    /\ LoopDone
    /\ result' = [artifacts_processed |-> Len(artifacts),
                  records_extracted |-> Size(all_records),
                  records_loaded |-> total_loaded]
    /\ rpc' = IF inv.entry = "main" THEN "succeed" ELSE "returned"
    /\ UNCHANGED <<inv, job, printed, exit_code, artifacts, apos, all_records, chunks,
                   total_loaded>>
    /\ UNCHANGED <<pvars, evars>>

\* main after extractor.run(): mark the job completed, store the result,
\* print the success JSON and exit 0
Succeed ==
    /\ rpc = "succeed"
    /\ \E ok1, ok2 \in BOOLEAN :
          /\ job' = UpdateJob(job, "completed", ok1)
          /\ IF inv.job_id /\ StoreRaises(ok2)
             THEN /\ rpc' = "except"
                  /\ UNCHANGED <<printed, exit_code>>
             ELSE /\ printed' = Append(printed, TRUE)
                  /\ exit_code' = 0
                  /\ rpc' = "exited"
    /\ UNCHANGED <<inv, artifacts, apos, all_records, chunks, total_loaded, result>>
    /\ UNCHANGED <<pvars, evars>>

\* main's `except Exception`: mark the job failed, store the error, print the
\* failure JSON and exit 1; an exception raised in the handler ends the
\* process with a traceback
Fail ==
    /\ rpc = "except"
    /\ \E ok1, ok2 \in BOOLEAN :
          /\ job' = UpdateJob(job, "failed", ok1)
          /\ exit_code' = 1
          /\ IF inv.job_id /\ StoreRaises(ok2)
             THEN /\ rpc' = "crashed"
                  /\ UNCHANGED printed
             ELSE /\ printed' = Append(printed, FALSE)
                  /\ rpc' = "exited"
    /\ UNCHANGED <<inv, artifacts, apos, all_records, chunks, total_loaded, result>>
    /\ UNCHANGED <<pvars, evars>>

NextRun ==
    \/ SelectExtractor
    \/ MarkRunning
    \/ Construct
    \/ Fetch
    \/ Extract
    \/ LoadBatch
    \/ RunReturn
    \/ Succeed
    \/ Fail

-----------------------------------------------------------------------------
(* Inputs of run_extraction.main and of a directly constructed extractor *)

\* number of artifacts of a run
MaxArtifacts == 2

\* artifacts of the JSON / CSV extractors: extract raises, or returns n records
PlainFiles ==
    {[content |-> "plain", service |-> "none", raises |-> TRUE, n |-> 0]}
    \cup {[content |-> "plain", service |-> "none", raises |-> FALSE, n |-> k] :
             k \in {0, 1, BatchSize, BatchSize + BatchSize \div 2}}

\* artifacts of the HTML / email extractors: where the content is, and what
\* the AI extraction service answers
AiFiles ==
    {[content |-> "bytes", service |-> sv, raises |-> FALSE, n |-> 1] :
        sv \in {"error", "non200", "badjson", "fail", "ok"}}
    \cup {[content |-> "dict", service |-> "ok", raises |-> FALSE, n |-> 1],
          [content |-> "str", service |-> "non200", raises |-> FALSE, n |-> 1],
          [content |-> "other", service |-> "ok", raises |-> FALSE, n |-> 1],
          [content |-> "missing", service |-> "error", raises |-> FALSE, n |-> 1]}

FilesFor(type) ==
    IF type = "html" THEN SeqsUpTo(AiFiles, MaxArtifacts)
    ELSE IF type = "email" THEN SeqsUpTo(AiFiles, 1)
    ELSE IF type = "json" THEN SeqsUpTo(PlainFiles, MaxArtifacts)
    ELSE {<<>>}

\* the invocations; what happens after a failure is not enumerated further
Invocations ==
    {i \in [entry : {"main", "component"},
            artifact_type : {"json", "html", "email", "pdf"},
            job_id : BOOLEAN, client : BOOLEAN,
            keys : SUBSET Required, creds : BOOLEAN, loads : BOOLEAN,
            source : {"ok", "raise"},
            files : UNION {FilesFor(t) : t \in {"json", "html", "email"}}] :
        /\ i.files \in FilesFor(i.artifact_type)
        /\ i.entry = "main" => i.keys = Required
        /\ i.entry = "component" => ~i.job_id /\ ~i.client /\ i.artifact_type \in {"json", "html"}
        /\ (ConstructFails(i) \/ i.source = "raise") => i.files = <<>>
        /\ ConstructFails(i) => i.source = "ok"
        /\ i.artifact_type = "pdf" => i.creds /\ i.loads /\ i.source = "ok"}

InitRun ==
    /\ ParseIdle
    /\ ExtractIdle
    /\ inv \in Invocations
    /\ rpc = (IF inv.entry = "main" THEN "select" ELSE "construct")
    /\ RunFresh

SpecRun == InitRun /\ [][NextRun]_vars

-----------------------------------------------------------------------------
(* Claims about load_data and run *)

\* total size of the chunks whose insert succeeded
RECURSIVE LoadedBy(_)
LoadedBy(cs) ==
    IF cs = <<>> THEN 0
    ELSE (IF Head(cs).ok THEN Head(cs).hi - Head(cs).lo ELSE 0) + LoadedBy(Tail(cs))

\* load_data has returned
Loaded == result # <<>>

\* C21: load_data submits the records in consecutive chunks of at most 1000,
\* in order, each record in exactly one chunk: every chunk starts where the
\* one before it ended, the first at record 0, and once load_data has
\* returned the last one ends at the last record, whether or not an earlier
\* insert failed. The count returned is the total size of the chunks whose
\* insert succeeded, and an empty record list returns 0 with no insert.
C21_Chunks ==
    /\ \A k \in 1 .. Len(chunks) :
          /\ chunks[k].lo = (IF k = 1 THEN 0 ELSE chunks[k - 1].hi)
          /\ chunks[k].hi - chunks[k].lo \in 1 .. BatchSize
          /\ chunks[k].hi <= Size(all_records)
    /\ total_loaded = LoadedBy(chunks)
    /\ Loaded =>
          /\ result.records_loaded = LoadedBy(chunks)
          /\ IF Size(all_records) = 0
             THEN chunks = <<>> /\ result.records_loaded = 0
             ELSE chunks[Len(chunks)].hi = Size(all_records)

\* three chunks, the last one short, a failed insert followed by a
\* successful one
C21_Witness ==
    /\ Loaded
    /\ Len(chunks) >= 3
    /\ chunks[Len(chunks)].hi - chunks[Len(chunks)].lo < BatchSize
    /\ \E k \in 1 .. Len(chunks) - 1 : ~chunks[k].ok /\ chunks[k + 1].ok
    /\ result.records_loaded > 0

\* record r is sent on its own after insert call k
RetriedAlone(r, k) ==
    \E j \in k + 1 .. Len(chunks) : chunks[j].lo = r /\ chunks[j].hi = r + 1

\* C22: when a batch insert is rejected wholesale, every record of that
\* batch is retried individually: once load_data has returned, each record
\* of a rejected batch has been sent again on its own by a later insert.
C22_RetriedIndividually ==
    Loaded =>
        \A k \in 1 .. Len(chunks) :
            ~chunks[k].ok =>
                \A r \in chunks[k].lo .. chunks[k].hi - 1 : RetriedAlone(r, k)

\* the AI extraction service was called for the artifact and did not
\* deliver: a transport error, a non-200 response, or success false
ServiceFailed(art) ==
    /\ art.content \in {"bytes", "dict", "str"}
    /\ art.service \in {"error", "non200", "fail"}

\* C23: for the HTML and email extractors, a non-200 response, a response
\* with success false or a transport error makes extract return exactly one
\* empty record and not raise: every artifact gone through whose service
\* call failed has contributed exactly one record, an empty one, and the
\* run has gone on to the next artifact or to the load.
C23_EmptyRecord ==
    inv.artifact_type \in {"html", "email"} =>
        \A a \in 1 .. apos :
            ServiceFailed(artifacts[a]) =>
                /\ \E i \in DOMAIN all_records :
                      all_records[i] = [a |-> a, n |-> 1, kind |-> "empty"]
                /\ rpc \notin {"raised", "fetch", "construct"}

\* an HTML run whose first service call failed and whose second succeeded
C23_Witness ==
    /\ inv.artifact_type = "html"
    /\ apos = 2
    /\ ServiceFailed(artifacts[1])
    /\ artifacts[2].service = "ok"
    /\ all_records = <<[a |-> 1, n |-> 1, kind |-> "empty"],
                       [a |-> 2, n |-> 1, kind |-> "data"]>>
    /\ Loaded

\* the call-time input is malformed: a configuration key is missing, the
\* store credentials are missing, or the artifact type has no extractor
Malformed ==
    \/ ~(Required \subseteq inv.keys)
    \/ ~inv.creds
    \/ inv.artifact_type \notin Supported

\* C24: malformed call-time input rejects the whole call before any
\* processing begins: no artifact is fetched, no extraction is run, no
\* insert is sent to the record store and run never starts or returns.
C24_RejectedBeforeProcessing ==
    Malformed =>
        /\ artifacts = <<>> /\ apos = 0
        /\ all_records = <<>>
        /\ chunks = <<>> /\ total_loaded = 0
        /\ result = <<>>
        /\ rpc \notin {"fetch", "extract", "load", "succeed", "returned"}

\* a constructor call without template_id has raised
C24_Witness ==
    /\ rpc = "raised"
    /\ "template_id" \notin inv.keys
    /\ inv.creds

-----------------------------------------------------------------------------
(* Claims about run_extraction.main *)

\* main has ended, by sys.exit or by an exception nobody caught
Ended == inv.entry = "main" /\ rpc \in {"exited", "crashed"}

\* C25: every invocation of main with a job id leaves the job in a terminal
\* status that agrees with the printed result: 'completed' when success true
\* was printed, 'failed' when success false was printed, and never the prior
\* status or 'running'.
C25_TerminalStatus ==
    (Ended /\ inv.job_id) =>
        /\ job.status \in {"completed", "failed"}
        /\ printed = <<TRUE>> => job.status = "completed"
        /\ printed = <<FALSE>> => job.status = "failed"

\* the statuses written to the job so far
Written == {job.log[k] : k \in DOMAIN job.log}

\* C26: job status only moves forward: 'running' is written before the
\* extractor is constructed (it is the first status written), 'completed'
\* is written only after extractor.run() has returned, and a job marked
\* 'completed' is never marked 'failed' afterwards in the same invocation.
C26_ForwardOnly ==
    /\ \A k \in DOMAIN job.log : job.log[k] = "running" => k = 1
    /\ "running" \in Written => rpc # "try"
    /\ "completed" \in Written => Loaded
    /\ \A k \in DOMAIN job.log :
          job.log[k] = "completed" =>
              \A m \in k + 1 .. Len(job.log) : job.log[m] # "failed"

\* C27: every invocation of main, whatever the artifact type, the job id,
\* the progress-tracking client and the outcome of the extraction, prints
\* exactly one JSON result object and exits with code 0 if and only if that
\* object has success true.
C27_OneResult ==
    Ended =>
        /\ Len(printed) = 1
        /\ exit_code = 0 <=> printed = <<TRUE>>

-----------------------------------------------------------------------------
(* Claim about BaseExtractor.run *)

\* what extract does for artifact a of the invocation
Outcome(a) == ExtractResult(inv.artifact_type, inv.files[a])

\* the records the extractions of artifacts 1 .. k return without raising
RECURSIVE Returned(_)
Returned(k) ==
    IF k = 0 THEN 0
    ELSE Returned(k - 1) + (IF Outcome(k).raised THEN 0 ELSE Outcome(k).n)

\* C28: in run, an extraction that raises contributes no record and stops
\* neither the extraction of the remaining artifacts nor the final load;
\* records are accumulated in artifact order; and the statistics returned
\* have artifacts_processed = number of fetched artifacts, records_extracted
\* = total of the records returned by the extractions that did not raise,
\* and records_loaded <= records_extracted.
C28_RunStatistics ==
    /\ \A i \in DOMAIN all_records :
          /\ ~Outcome(all_records[i].a).raised
          /\ all_records[i].n = Outcome(all_records[i].a).n
          /\ \A j \in DOMAIN all_records : i < j => all_records[i].a < all_records[j].a
    /\ Size(all_records) = Returned(apos)
    /\ rpc = "raised" => artifacts = <<>>
    /\ Loaded =>
          /\ apos = Len(inv.files)
          /\ result.artifacts_processed = Len(inv.files)
          /\ result.records_extracted = Returned(Len(inv.files))
          /\ result.records_loaded <= result.records_extracted

\* a run whose first extraction raised and whose second returned records,
\* some of which were loaded
C28_Witness ==
    /\ Loaded
    /\ Len(inv.files) = 2
    /\ Outcome(1).raised
    /\ ~Outcome(2).raised
    /\ result.artifacts_processed = 2
    /\ result.records_extracted = BatchSize + BatchSize \div 2
    /\ result.records_loaded = BatchSize

-----------------------------------------------------------------------------
(* Coverage and column mapping with several columns on one field *)

\* headers with two labels close to the field "brand"
CoverHeaders ==
    { <<Brand, Brands>>, <<Brand, Type>>, <<Brand, Brands, Type>>,
      <<Brand, Type, Brands>>, <<Type, Brand, Brands>> }

\* data rows of one width, with and without all-empty rows, and the rows of
\* mixed widths of DataRowLists
CoverRowLists ==
    DataRowLists \cup
    { << <<N12, Txt>>, <<E, E>> >>,
      << <<E, Sp>>, <<Txt, N12>> >>,
      << <<Txt, N12, N12>>, <<E, E, E>>, <<N12, Txt, Txt>> >>,
      << <<N12, Txt, Brand>>, <<Txt, Sp, N12>> >>,
      << <<E>>, <<N12, Txt>> >> }

InitCover ==
    /\ ParseIdle
    /\ RunIdle
    /\ \/ \E flds \in FieldLists : ExtractStart(<<>>, flds)
       \/ \E hdr \in CoverHeaders :
          \E rows \in CoverRowLists :
          \E flds \in FieldLists :
             ExtractStart(<< <<hdr>> \o rows >>, flds)

SpecCover == InitCover /\ [][NextExtract]_vars

\* the data rows all have the same width
SameWidth == \A j, k \in DOMAIN DataRows : Len(DataRows[j]) = Len(DataRows[k])

\* every cell of the row is empty
EmptyRow(row) == \A c \in DOMAIN row : Strip(row[c]) = <<>>

\* C29: the coverage filter counts the keys of the raw record, the distinct
\* fields mapped from the columns present in the row, whether or not the
\* cells are empty: the records are those of the rows with enough keys. So
\* when the data rows all have the same width, either every data row is
\* accepted or every one is dropped, and an all-empty row is accepted
\* whenever any row is, its record holding empty strings.
C29_KeysNotValues ==
    Extracted =>
        /\ RecordsAre(KeptRows)
        /\ SameWidth =>
              /\ Len(records) \in {0, Len(DataRows)}
              /\ records # <<>> =>
                    \A k \in DOMAIN DataRows :
                        /\ DOMAIN records[k] = RowKeys(DataRows[k])
                        /\ EmptyRow(DataRows[k]) =>
                              \A f \in DOMAIN records[k] : records[k][f] = Str(<<>>)

\* two data rows of the same width were both accepted with a threshold of
\* at least one key, the second of them all empty
C29_Witness ==
    /\ Extracted
    /\ Threshold >= 1
    /\ Len(DataRows) = 2
    /\ SameWidth
    /\ ~EmptyRow(DataRows[1])
    /\ EmptyRow(DataRows[2])
    /\ Len(records) = 2
    /\ DOMAIN records[2] # {}

\* two columns are mapped to the same field
SharedField == \E c, d \in DOMAIN column_mapping : c < d /\ column_mapping[c] = column_mapping[d]

\* the last column of the header that is mapped to field f
TopCol(f) == MaxOf({c \in DOMAIN column_mapping : column_mapping[c] = f})

\* C30 as stated: every raw record holds, for each of its fields, the value
\* of the highest-index column mapped to that field.
C30_Original ==
    Extracted =>
        \A j \in DOMAIN records :
            LET row == DataRows[NthOf(KeptRows, j)]
            IN  \A f \in DOMAIN records[j] :
                    /\ TopCol(f) < Len(row)
                    /\ records[j][f] = Str(Strip(row[TopCol(f) + 1]))

\* C30 amended: the column mapping gives each grid column at most one field
\* and need not be injective; when several columns map to the same field,
\* the raw record of a row holds for that field the value of the
\* highest-index such column that the row has a cell for (a row too short
\* to reach the later column keeps the earlier column's value), and the
\* field is one key of the record, counted once toward the coverage
\* threshold.
C30_LastColumnWins ==
    Extracted =>
        /\ \A c \in DOMAIN column_mapping :
              c \in 0 .. Len(Headers) - 1 /\ \E k \in DOMAIN fields : column_mapping[c] = fields[k].name
        /\ RecordsAre(KeptRows)
        /\ \A j \in DOMAIN records :
              LET row == DataRows[NthOf(KeptRows, j)]
              IN  /\ \A f \in DOMAIN records[j] :
                        records[j][f] = Str(Strip(row[LastCol(row, f) + 1]))
                  /\ Cardinality(DOMAIN records[j]) = Cardinality(RowKeys(row))
                  /\ 2 * Cardinality(RowKeys(row)) >= Len(fields)

\* columns 0 and 1 are both mapped to "brand", and a record holds the value
\* of column 1, which differs from that of column 0
C30_Witness ==
    /\ Extracted
    /\ SharedField
    /\ column_mapping[0] = fBrand.name
    /\ column_mapping[1] = fBrand.name
    /\ records # <<>>
    /\ LET row == DataRows[NthOf(KeptRows, 1)]
       IN  /\ Len(row) >= 2
           /\ Strip(row[1]) # Strip(row[2])
           /\ records[1][fBrand.name] = Str(Strip(row[2]))

====
